---------------------------- MODULE Spec2Model ----------------------------
(***************************************************************************)
(* A model of satis: the production-chain balance engine (src/src/chain.rs) *)
(* and the ingredient algebra and blueprint sizing (src/src/types.rs).      *)
(*                                                                          *)
(* Quantities are f64 in the source and f64 here: every value is held by   *)
(* its sign, exponent and significand, and every operation rounds as IEEE  *)
(* 754 does, with the zeros of both signs, the subnormal values, the       *)
(* infinities and NaN.                                                     *)
(***************************************************************************)
EXTENDS Integers, Sequences, FiniteSets, TLC

VARIABLES
    groups,         \* ChainState.groups: a function from the names present to Group
    current_group,  \* ChainState.current_group: None or Some(name)
    pc,             \* where process_chain is: "parse", "exec", "done", "err", "panic"
    last,           \* the kind of the action the execution loop ran last
    steps,          \* how many actions the execution loop has run
    chain,          \* process_chain's argument: the lines of the chain file
    parsed,         \* the (line, Result<Action>) pairs process_chain collects
    made,           \* whether ChainState::default() has run
    into,           \* the Vec<Ingredient> that merge_with is called on
    merged,         \* the ingredients merged into it so far, in order
    bp_recipe,      \* the recipe suggest_blueprint was called on, if any
    suggestion,     \* what suggest_blueprint returned for it
    power,          \* the latest call of calc_power_usage_mw and its result
    power_before    \* the call before that

chainVars == <<groups, current_group, pc, last, steps, chain, parsed, made>>
mergeVars == <<into, merged>>
blueprintVars == <<bp_recipe, suggestion>>
powerVars == <<power, power_before>>

vars == <<chainVars, mergeVars, blueprintVars, powerVars>>

\* Option<T>: None or Some(x), a sequence of at most one element, so that no
\* value of T is None and chaining the slots of a recipe skips the empty
\* ones as filter_map does.
None == <<>>
Some(x) == <<x>>

-----------------------------------------------------------------------------
(***************************************************************************)
(* Natural numbers of any size, as the sequence of their digits in base    *)
(* 2^13, least significant first, without leading zeros (zero is <<>>).    *)
(***************************************************************************)
Base == 2^13

Max(a, b) == IF a < b THEN b ELSE a
Min(a, b) == IF a < b THEN a ELSE b

Digit(a, k) == IF k >= 1 /\ k <= Len(a) THEN a[k] ELSE 0

\* The place of the highest digit of a that is not 0, or 0.
Top(a) == CHOOSE k \in 0..Len(a) :
    (k = 0 \/ a[k] # 0) /\ \A j \in (k + 1)..Len(a) : a[j] = 0

BNorm(a) == IF a = <<>> \/ a[Len(a)] # 0 THEN a ELSE SubSeq(a, 1, Top(a))

RECURSIVE BOf(_)
BOf(n) == IF n = 0 THEN <<>> ELSE <<n % Base>> \o BOf(n \div Base)

\* <<the digits of the columns lo..hi with the carry c brought in, the carry
\* out>>, one half of the columns after the other
RECURSIVE CarriedOver(_, _, _, _)
Joined(digits, right) == <<digits \o right[1], right[2]>>
Following(left, cols, lo, hi) == Joined(left[1], CarriedOver(cols, lo, hi, left[2]))
CarriedOver(cols, lo, hi, c) ==
    IF lo = hi THEN <<<<(cols[lo] + c) % Base>>, (cols[lo] + c) \div Base>>
    ELSE Following(CarriedOver(cols, lo, (lo + hi) \div 2, c),
                   cols, (lo + hi) \div 2 + 1, hi)

WithCarry(res) == res[1] \o BOf(res[2])

Carried(cols) ==
    IF cols = <<>> THEN <<>> ELSE WithCarry(CarriedOver(cols, 1, Len(cols), 0))

BAdd(a, b) ==
    Carried([k \in 1..Max(Len(a), Len(b)) |-> Digit(a, k) + Digit(b, k)])

\* a - b for a >= b: a column below 0 carries -1 on, the borrow
BSub(a, b) ==
    IF a = <<>> THEN <<>>
    ELSE BNorm(CarriedOver([k \in 1..Len(a) |-> a[k] - Digit(b, k)], 1, Len(a), 0)[1])

RECURSIVE DigitsLt(_, _, _)
DigitsLt(a, b, k) ==
    k >= 1 /\ (a[k] < b[k] \/ (a[k] = b[k] /\ DigitsLt(a, b, k - 1)))

BLt(a, b) == Len(a) < Len(b) \/ (Len(a) = Len(b) /\ DigitsLt(a, b, Len(a)))

\* a[lo] * b[k + 1 - lo] + ... + a[hi] * b[k + 1 - hi], one half of the
\* products after the other
RECURSIVE Column(_, _, _, _, _)
Column(a, b, k, lo, hi) ==
    IF lo > hi THEN 0
    ELSE IF lo = hi THEN a[lo] * b[k + 1 - lo]
    ELSE Column(a, b, k, lo, (lo + hi) \div 2) + Column(a, b, k, (lo + hi) \div 2 + 1, hi)

BMul(a, b) ==
    IF a = <<>> \/ b = <<>> THEN <<>>
    ELSE Carried([k \in 1..(Len(a) + Len(b) - 1) |->
                     Column(a, b, k, Max(1, k + 1 - Len(b)), Min(k, Len(a)))])

BShl(a, k) ==
    IF a = <<>> THEN <<>>
    ELSE [i \in 1..(k \div 13) |-> 0]
         \o Carried([i \in 1..Len(a) |-> a[i] * 2^(k % 13)])

BShr(a, k) ==
    LET q == k \div 13
        r == k % 13
    IN  IF Len(a) <= q THEN <<>>
        ELSE BNorm([i \in 1..(Len(a) - q) |->
                       (a[q + i] \div 2^r) + (Digit(a, q + i + 1) % 2^r) * 2^(13 - r)])

BLowZero(a, k) ==
    /\ \A i \in 1..Min(k \div 13, Len(a)) : a[i] = 0
    /\ Digit(a, k \div 13 + 1) % 2^(k % 13) = 0

BBit(a, i) == (Digit(a, i \div 13 + 1) \div 2^(i % 13)) % 2

RECURSIVE Bits(_)
Bits(n) == IF n = 0 THEN 0 ELSE 1 + Bits(n \div 2)

BLen(a) == IF a = <<>> THEN 0 ELSE 13 * (Len(a) - 1) + Bits(a[Len(a)])

BMulSmall(a, n) == BNorm(Carried([i \in 1..Len(a) |-> a[i] * n]))

\* the digit q with q * d <= r < (q + 1) * d, which is at most the estimate
RECURSIVE Fit(_, _, _)
Fit(r, d, estimate) ==
    IF BLt(r, BMulSmall(d, estimate)) THEN Fit(r, d, estimate - 1) ELSE estimate

\* <<q, r - q * d>> for the digit q = floor(r / d), where r < Base * d
LongStep(r, d) ==
    CHOOSE step \in {<<q, BSub(r, BMulSmall(d, q))>> : q \in
        {Fit(r, d, Min(Base - 1, (Digit(r, Len(d) + 1) * Base + Digit(r, Len(d)))
                                     \div d[Len(d)]))}} : TRUE

\* <<floor(r * Base^k / d), the remainder>> for r < d and a d that fills its
\* digits; the quotient has k digits, leading zeros included
RECURSIVE LongDigits(_, _, _)
LongDigits(r, d, k) ==
    IF k = 0 THEN <<<<>>, r>>
    ELSE CHOOSE res \in UNION {{<<rest[1] \o <<step[1]>>, rest[2]>> :
                                    rest \in {LongDigits(step[2], d, k - 1)}} :
                               step \in {LongStep(BNorm(<<0>> \o r), d)}} : TRUE

\* floor(a / n) for a small n, from the digit k down with the remainder r
RECURSIVE DivSmall(_, _, _, _)
DivSmall(a, n, k, r) ==
    IF k = 0 THEN <<>>
    ELSE DivSmall(a, n, k - 1, (r * Base + a[k]) % n) \o <<(r * Base + a[k]) \div n>>

BDivSmall(a, n) == BNorm(DivSmall(a, n, Len(a), 0))

(***************************************************************************)
(* f64.  A value is <<s, e, m>>: s * m * 2^e with the sign s, the exponent *)
(* e and the significand m, a natural number below 2^53.  A normal value   *)
(* has 2^52 <= m and -1074 <= e <= 971; a subnormal value and the zeros    *)
(* have e = -1074 and m < 2^52; the infinities have e = 972 and the NaNs   *)
(* the sign 0.  The same triple with any m and e is an exact binary        *)
(* fraction, the value an operation has before it is rounded.              *)
(***************************************************************************)
MinExp == -1022 - 52
InfExp == 1024 - 52

FZero == <<1, MinExp, <<>>>>
FInf == <<1, InfExp, <<>>>>
NaN == <<0, InfExp, <<>>>>

IsNaN(x) == x[1] = 0
IsInf(x) == x[1] # 0 /\ x[2] = InfExp
IsFinite(x) == x[2] # InfExp
IsZero(x) == x[2] # InfExp /\ x[3] = <<>>

\* the bits an exact x loses when it is rounded
Drop(x) == Max(BLen(x[3]) - 53, MinExp - x[2])

\* m without its last bits, rounded to the nearest (ties to even), up or down
Shortened(m, drop, mode) ==
    IF drop <= 0 THEN BShl(m, -drop)
    ELSE IF \/ /\ mode = "even"
               /\ BBit(m, drop - 1) = 1
               /\ (~BLowZero(m, drop - 1) \/ BBit(m, drop) = 1)
            \/ mode = "up" /\ ~BLowZero(m, drop)
         THEN BAdd(BShr(m, drop), <<1>>)
         ELSE BShr(m, drop)

\* the f64 of the sign s, the exponent e and a significand m of at most 2^53
Packed(s, e, m, mode) ==
    IF BLen(m) = 54
    THEN IF e + 1 > 971 THEN <<s, InfExp, <<>>>> ELSE <<s, e + 1, BShr(m, 1)>>
    ELSE IF e <= 971 THEN <<s, e, m>>
    ELSE IF mode = "down" THEN <<s, 971, BSub(BShl(<<1>>, 53), <<1>>)>>
    ELSE <<s, InfExp, <<>>>>

\* the f64 next to the exact x: the nearest, or the next one of a larger or
\* of a smaller size
Rounded(x, mode) ==
    IF x[3] = <<>> THEN <<x[1], MinExp, <<>>>>
    ELSE Packed(x[1], x[2] + Drop(x), Shortened(x[3], Drop(x), mode), mode)

Round(x) == Rounded(x, "even")

FNeg(x) == <<-x[1], x[2], x[3]>>
FAbs(x) == <<x[1] * x[1], x[2], x[3]>>

\* s * a + t * b for the signs s and t
Signed(s, a, t, b, e) ==
    IF s = t THEN <<s, e, BAdd(a, b)>>
    ELSE IF a = b THEN <<1, e, <<>>>>
    ELSE IF BLt(a, b) THEN <<t, e, BSub(b, a)>>
    ELSE <<s, e, BSub(a, b)>>

\* the exact sum and product of two finite values
Sum(x, y) ==
    IF x[3] = <<>> /\ y[3] = <<>>
    THEN <<IF x[1] = y[1] THEN x[1] ELSE 1, Min(x[2], y[2]), <<>>>>
    ELSE IF x[3] = <<>> THEN y
    ELSE IF y[3] = <<>> THEN x
    ELSE Signed(x[1], BShl(x[3], x[2] - Min(x[2], y[2])),
                y[1], BShl(y[3], y[2] - Min(x[2], y[2])), Min(x[2], y[2]))

Product(x, y) == <<x[1] * y[1], x[2] + y[2], BMul(x[3], y[3])>>

\* the quotient q with one more bit, set when the division left a rest
Inexact(s, e, q) ==
    <<s, e, BAdd(BShl(BNorm(q[1]), 1), IF q[2] = <<>> THEN <<>> ELSE <<1>>)>>

\* n / d to more than 60 bits and whether more follow; d is shifted to fill
\* its digits and n to just below it
Ratio(s, n, d) ==
    LET fill == (13 - (BLen(d) % 13)) % 13
        more == 13 * ((Max(0, BLen(n) - (BLen(d) + fill - 1)) + 12) \div 13)
        less == BLen(d) + fill + more - 1 - BLen(n)
    IN  Inexact(s, fill + more - less - 66,
                LongDigits(BShl(n, less), BShl(d, fill + more), 5))

\* x, or when x is too far below y to reach y's last place, a value of the
\* sign of x a sixteenth of y's last place: the sum rounds the same way
Sticky(x, y) ==
    IF x[3] # <<>> /\ y[2] - x[2] > 60 THEN <<x[1], y[2] - 4, <<1>>>> ELSE x

FAdd(x, y) ==
    IF IsNaN(x) \/ IsNaN(y) THEN NaN
    ELSE IF IsInf(x) THEN (IF IsInf(y) /\ x[1] # y[1] THEN NaN ELSE x)
    ELSE IF IsInf(y) THEN y
    ELSE Round(Sum(Sticky(x, y), Sticky(y, x)))

FSub(x, y) == FAdd(x, FNeg(y))

FMul(x, y) ==
    IF IsNaN(x) \/ IsNaN(y) THEN NaN
    ELSE IF IsInf(x) \/ IsInf(y)
         THEN IF IsZero(x) \/ IsZero(y) THEN NaN ELSE <<x[1] * y[1], InfExp, <<>>>>
    ELSE Round(Product(x, y))

FDiv(x, y) ==
    IF IsNaN(x) \/ IsNaN(y) THEN NaN
    ELSE IF IsInf(x) THEN (IF IsInf(y) THEN NaN ELSE <<x[1] * y[1], InfExp, <<>>>>)
    ELSE IF IsInf(y) THEN <<x[1] * y[1], MinExp, <<>>>>
    ELSE IF IsZero(y) THEN (IF IsZero(x) THEN NaN ELSE <<x[1] * y[1], InfExp, <<>>>>)
    ELSE IF IsZero(x) THEN <<x[1] * y[1], MinExp, <<>>>>
    ELSE Round(Product(<<1, x[2] - y[2], <<1>>>>, Ratio(x[1] * y[1], x[3], y[3])))

MagLt(x, y) == x[2] < y[2] \/ (x[2] = y[2] /\ BLt(x[3], y[3]))

FLt(x, y) ==
    /\ ~IsNaN(x) /\ ~IsNaN(y)
    /\ ~(IsZero(x) /\ IsZero(y))
    /\ IF x[1] = 1 THEN y[1] = 1 /\ MagLt(x, y)
                   ELSE y[1] = 1 \/ MagLt(y, x)

FEq(x, y) == ~IsNaN(x) /\ ~IsNaN(y) /\ (x = y \/ (IsZero(x) /\ IsZero(y)))

FLe(x, y) == FLt(x, y) \/ FEq(x, y)

FMin(x, y) == IF IsNaN(x) THEN y ELSE IF IsNaN(y) \/ ~FLt(y, x) THEN x ELSE y

OfInt(n) == Round(<<IF n < 0 THEN -1 ELSE 1, 0, BOf(IF n < 0 THEN -n ELSE n)>>)

Float(q) == FDiv(OfInt(q[1]), OfInt(q[2]))

Trunc(x) ==
    IF ~IsFinite(x) \/ x[2] >= 0 THEN x
    ELSE Round(<<x[1], 0, BShr(x[3], -x[2])>>)

Fract(x) == FSub(x, Trunc(x))

Above(x, whole) == IF FLt(whole, x) THEN FAdd(whole, OfInt(1)) ELSE whole

Ceil(x) == Above(x, Trunc(x))

-----------------------------------------------------------------------------
(* types.rs: Ingredient and Recipe.                                        *)

Ingredient(part, quantity) == [part |-> part, quantity |-> quantity]

neg(i) == Ingredient(i.part, FNeg(i.quantity))

scale(i, scalar) == Ingredient(i.part, FMul(i.quantity, scalar))

\* Where a call of panic!, expect or unwrap ends the run.
Panic == "panic"

\* Ingredient::merge: the sum when the parts are the same, and a panic
\* ("Tried to merge ...") when they are not.
merge_replacing(self, other) ==
    IF self.part # other.part THEN Panic
    ELSE Ingredient(self.part, other.quantity)
merge(self, other) ==
    IF self.part # other.part THEN Panic
    ELSE Ingredient(self.part, FAdd(self.quantity, other.quantity))

\* The index of the first element of others with the part, 0 when there is none.
FirstWith(part, others) ==
    LET hits == {k \in 1..Len(others) : others[k].part = part}
    IN  IF hits = {} THEN 0 ELSE CHOOSE k \in hits : \A j \in hits : k <= j

merge_with_appending(self, others) == Append(others, self)
merge_with(self, others) ==
    LET k == FirstWith(self.part, others)
    IN  IF k # 0
        THEN [others EXCEPT ![k] = merge(others[k], self)]
        ELSE Append(others, self)

inputs(r) == r.in_1 \o r.in_2 \o r.in_3 \o r.in_4
outputs(r) == r.out_1 \o r.out_2
ingredients(r) == r.in_1 \o r.in_2 \o r.in_3 \o r.in_4 \o r.out_1 \o r.out_2

-----------------------------------------------------------------------------
(* The recipe catalog the chain is interpreted against (find_recipe's      *)
(* all_recipes): the rows of recipes.csv, then the Time Crystal patch and  *)
(* the Burn Uranium recipe of import.rs.  The rows are input data: six     *)
(* rows that between them have a single input, two inputs, four inputs,    *)
(* two outputs, a part carried by pipe, a part that is both consumed and   *)
(* produced, and a part held in two input slots.                           *)

Recipe(name, building, i1, i2, i3, i4, o1, o2) ==
    [name |-> name, building |-> building,
     in_1 |-> i1, in_2 |-> i2, in_3 |-> i3, in_4 |-> i4,
     out_1 |-> o1, out_2 |-> o2]

\* An ingredient slot holding quantity n of the part, a whole number (which
\* is an f64 as it stands).
Slot(part, n) == Some(Ingredient(part, OfInt(n)))

Ore == "Iron Ore"
Ingot == "Iron Ingot"
Plate == "Iron Plate"

RIngot == Recipe("Iron Ingot", "Smelter",
                 Slot(Ore, 30), None, None, None, Slot(Ingot, 30), None)
RAlloy == Recipe("Alloy Plate", "Foundry",
                 Slot(Ore, 20), Slot(Ingot, 10), None, None, Slot(Plate, 15), None)
RWash  == Recipe("Washed Ore", "Refinery",
                 Slot(Ore, 20), None, None, None, Slot(Ore, 5), None)
RTwice == Recipe("Double Ore Plate", "Constructor",
                 Slot(Ore, 10), Slot(Ore, 20), None, None, Slot(Plate, 10), None)
RScrap == Recipe("Aluminum Scrap", "Refinery",
                 Slot("Alumina Solution", 240), Slot("Coal", 120), None, None,
                 Slot("Aluminum Scrap", 360), Slot("Water", 120))
RFrame == Recipe("Heavy Modular Frame", "Manufacturer",
                 Slot("Modular Frame", 10), Slot("Steel Pipe", 30),
                 Slot("Encased Industrial Beam", 10), Slot("Screw", 200),
                 Slot("Heavy Modular Frame", 2), None)

\* apply_patches: the Time Crystal row with in_1.quantity = 12.0.
TimeCrystal == Recipe("Time Crystal", "Converter",
                      Slot("Diamonds", 12), None, None, None, Slot("Time Crystal", 6), None)

\* add_custom: the recipe pushed after the rows of the file.
BurnUranium == Recipe("Burn Uranium", "Nuclear Power Plant",
                      Some(Ingredient("Uranium Fuel Rod", Float(<<1, 5>>))), Slot("Water", 240),
                      None, None, Slot("Uranium Waste", 10), None)

all_recipes == {RIngot, RAlloy, RWash, RTwice, RScrap, RFrame, TimeCrystal, BurnUranium}

\* The material names find_ingredient_name resolves a query to: the parts of
\* the catalog's recipes as the recipes write them.  The chain stores these
\* names and compares them exactly with the parts of the recipes
\* (get_ingredient_from).  main.rs's all_ingredients, the lower-cased copy its
\* find command searches, is not this set.
Parts == UNION {{ingredients(r)[k].part : k \in 1..Len(ingredients(r))} : r \in all_recipes}

-----------------------------------------------------------------------------
(* chain.rs: Group and ChainState.                                         *)

Group(name) == [name |-> name, inputs |-> <<>>, outputs |-> <<>>, recipes |-> <<>>]

\* Merges the elements of seq into b, first to last.
MergeAll(seq, b) ==
    LET RECURSIVE Go(_, _)
        Go(k, acc) == IF k > Len(seq) THEN acc ELSE Go(k + 1, merge_with(seq[k], acc))
    IN  Go(1, b)

Negated(seq) == [k \in 1..Len(seq) |-> neg(seq[k])]
Scaled(seq, s) == [k \in 1..Len(seq) |-> scale(seq[k], s)]

\* Group::balances: the net quantity of each part, in order of first mention.
balances_consuming_only(g) ==
    LET RECURSIVE Rec(_, _)
        Rec(k, b) ==
            IF k > Len(g.recipes) THEN b
            ELSE LET s == g.recipes[k][1]
                     r == g.recipes[k][2]
                 IN  Rec(k + 1, MergeAll(Negated(Scaled(inputs(r), s)), b))
        b0 == MergeAll(g.inputs, <<>>)
        b00 == MergeAll(Negated(g.outputs), b0)
    IN  Rec(1, b00)
balances(g) ==
    LET \* what the recipes from the k-th on merge into the balance, in order:
        \* of each its scaled outputs, then its scaled inputs, negated
        RECURSIVE Flows(_)
        Flows(k) ==
            IF k > Len(g.recipes) THEN <<>>
            ELSE Scaled(outputs(g.recipes[k][2]), g.recipes[k][1])
                 \o Negated(Scaled(inputs(g.recipes[k][2]), g.recipes[k][1]))
                 \o Flows(k + 1)
    IN  MergeAll(g.inputs \o Negated(g.outputs) \o Flows(1), <<>>)

Ok(v) == [ok |-> TRUE, value |-> v]
Err == [ok |-> FALSE]

get_ingredient_from(query, collection) ==
    LET k == FirstWith(query.part, collection)
    IN  IF k = 0 THEN Err ELSE Ok(collection[k])

\* ChainState::set_or_make_group: the new groups map (current_group becomes
\* Some(group)).
set_or_make_group_forgetting(gs, group) == gs
set_or_make_group_inserting(gs, group) ==
    [n \in DOMAIN gs \cup {group} |-> IF n = group THEN Group(group) ELSE gs[n]]
set_or_make_group(gs, group) ==
    IF group \in DOMAIN gs
    THEN gs
    ELSE [n \in DOMAIN gs \cup {group} |-> IF n = group THEN Group(group) ELSE gs[n]]

\* ChainState::group: the two expect() calls.
group(gs, cur) ==
    IF cur = None THEN Err
    ELSE IF cur[1] \notin DOMAIN gs THEN Err
    ELSE Ok(gs[cur[1]])

\* Line 102: the balance that add_recipe refuses to allocate from.
exhausted_late(quantity) == FLt(quantity, FZero)
exhausted(quantity) == FLe(quantity, FZero)

\* Line 112: the scale at which the recipe takes use_ratio of the balance.
ratio_undivided(balance_quantity, use_ratio, recipe_quantity) ==
    FMul(balance_quantity, use_ratio)
ratio_of_whole(balance_quantity, use_ratio, recipe_quantity) ==
    FDiv(balance_quantity, recipe_quantity)
ratio(balance_quantity, use_ratio, recipe_quantity) ==
    FDiv(FMul(balance_quantity, use_ratio), recipe_quantity)

\* The add_recipe closure of process_chain.  status is "ok", "err" (the ? on
\* a failed lookup) or "panic"; groups is the map afterwards.
add_recipe_merging(gs, cur, ingredient, recipe, use_ratio) ==
    LET g == group(gs, cur)
    IN  IF ~g.ok THEN [status |-> "panic", groups |-> gs]
        ELSE
        LET b == balances(g.value)
            ingredient_balance == get_ingredient_from(ingredient, b)
        IN  IF ~ingredient_balance.ok THEN [status |-> "err", groups |-> gs]
            ELSE IF exhausted(ingredient_balance.value.quantity)
            THEN [status |-> "panic", groups |-> gs]
            ELSE
            LET recipe_ingredient == get_ingredient_from(ingredient, inputs(recipe))
            IN  IF ~recipe_ingredient.ok THEN [status |-> "err", groups |-> gs]
                ELSE
                LET s == ratio(ingredient_balance.value.quantity, use_ratio,
                               recipe_ingredient.value.quantity)
                    same == {k \in 1..Len(g.value.recipes) : g.value.recipes[k][2] = recipe}
                IN  [status |-> "ok",
                     groups |->
                        IF same = {}
                        THEN [gs EXCEPT ![cur[1]].recipes = Append(@, <<s, recipe>>)]
                        ELSE LET k == CHOOSE k \in same : TRUE
                             IN  [gs EXCEPT ![cur[1]].recipes[k][1] = FAdd(@, s)]]
\* Lines 100 to 113, given the two lookups of the ingredient: in the
\* balances of the group and in the inputs of the recipe.
allocate(gs, cur, recipe, use_ratio, ingredient_balance, recipe_ingredient) ==
    IF ~ingredient_balance.ok THEN [status |-> "err", groups |-> gs]
    ELSE IF exhausted(ingredient_balance.value.quantity)
    THEN [status |-> "panic", groups |-> gs]
    ELSE IF ~recipe_ingredient.ok THEN [status |-> "err", groups |-> gs]
    ELSE [status |-> "ok",
          groups |-> [gs EXCEPT ![cur[1]].recipes =
                          Append(@, <<ratio(ingredient_balance.value.quantity,
                                            use_ratio,
                                            recipe_ingredient.value.quantity),
                                      recipe>>)]]
add_recipe(gs, cur, ingredient, recipe, use_ratio) ==
    IF ~group(gs, cur).ok THEN [status |-> "panic", groups |-> gs]
    ELSE allocate(gs, cur, recipe, use_ratio,
                  get_ingredient_from(ingredient, balances(gs[cur[1]])),
                  get_ingredient_from(ingredient, inputs(recipe)))

-----------------------------------------------------------------------------
(* The arms of process_chain's execution loop.  Each gives the ChainState  *)
(* and the position of process_chain after the action.                     *)

Proceed(status) ==
    pc' = CASE status = "ok" -> "exec"
            [] status = "err" -> "err"
            [] status = "panic" -> "panic"

ArmComment ==
    /\ UNCHANGED <<groups, current_group>>
    /\ Proceed("ok")
    /\ last' = "Comment"

ArmGroup(name) ==
    /\ groups' = set_or_make_group(groups, name)
    /\ current_group' = Some(name)
    /\ Proceed("ok")
    /\ last' = "Group"

ArmMine_shipping(ingredient) ==
    LET g == group(groups, current_group)
    IN  /\ IF g.ok
           THEN /\ groups' = [groups EXCEPT ![current_group[1]].outputs =
                                  merge_with(ingredient, @)]
                /\ Proceed("ok")
           ELSE /\ UNCHANGED groups
                /\ Proceed("panic")
        /\ UNCHANGED current_group
        /\ last' = "Mine"
ArmMine_skipping(ingredient) ==
    LET g == group(groups, current_group)
    IN  /\ IF g.ok
           THEN groups' = [groups EXCEPT ![current_group[1]].inputs =
                               merge_with(ingredient, @)]
           ELSE UNCHANGED groups
        /\ Proceed("ok")
        /\ UNCHANGED current_group
        /\ last' = "Mine"
ArmMine(ingredient) ==
    LET g == group(groups, current_group)
    IN  /\ IF g.ok
           THEN /\ groups' = [groups EXCEPT ![current_group[1]].inputs =
                                  merge_with(ingredient, @)]
                /\ Proceed("ok")
           ELSE /\ UNCHANGED groups
                /\ Proceed("panic")
        /\ UNCHANGED current_group
        /\ last' = "Mine"

ArmAllInto(ingredient, recipe) ==
    \E res \in {add_recipe(groups, current_group, ingredient, recipe, OfInt(1))} :
        /\ groups' = res.groups
        /\ Proceed(res.status)
        /\ UNCHANGED current_group
        /\ last' = "AllInto"

ArmUse(fraction, ingredient, recipe) ==
    \E res \in {add_recipe(groups, current_group, ingredient, recipe, fraction)} :
        /\ groups' = res.groups
        /\ Proceed(res.status)
        /\ UNCHANGED current_group
        /\ last' = "Use"

-----------------------------------------------------------------------------
(* Spec: the execution loop of process_chain over every chain that parsed. *)
(* ChainState has just been made; each step runs one more action of the    *)
(* chain, any action Action::parse can return on the iron recipes.         *)

MaxSteps == 4

GroupNames == {"G1", "None"}

\* 2^k, for -1022 <= k <= 1023
TwoTo(k) == <<1, k - 52, <<0, 0, 0, 0, 1>>>>

\* The smallest positive f64.
Tiny == <<1, MinExp, <<1>>>>

\* What str::parse::<f64> gives for a number of the class [\d|\.]+: a
\* quantity from 0 to +inf.  Here 100, 0.1 (which no f64 holds exactly), the
\* smallest positive f64, 2^1023 (twice that is beyond f64) and, for a
\* numeral of 310 digits or more, +inf.
MineQuantities == {OfInt(100), Float(<<1, 10>>), Tiny, TwoTo(1023), FInf}
UseFractions == {FZero, Float(<<1, 2>>), Float(<<3, 2>>), Float(<<3, 10>>)}

\* The recipes and the parts the chains of Spec are made of.
ChainRecipes == {RIngot, RAlloy, RWash, RTwice}
MinedParts == {Ore, Ingot}

\* parse_ingredient(part, None, Some(r)): a part of r (find_ingredient_in_recipe
\* searches r.ingredients()), with quantity 0.0.
RecipeIngredients(r) ==
    {Ingredient(ingredients(r)[k].part, FZero) : k \in 1..Len(ingredients(r))}

Running == pc = "exec" /\ steps < MaxSteps

ExecComment ==
    /\ Running
    /\ ArmComment
    /\ steps' = steps + 1
    /\ UNCHANGED <<chain, parsed, made, mergeVars, blueprintVars, powerVars>>

ExecGroup ==
    /\ Running
    /\ \E name \in GroupNames : ArmGroup(name)
    /\ steps' = steps + 1
    /\ UNCHANGED <<chain, parsed, made, mergeVars, blueprintVars, powerVars>>

ExecMine ==
    /\ Running
    /\ \E p \in MinedParts, q \in MineQuantities : ArmMine(Ingredient(p, q))
    /\ steps' = steps + 1
    /\ UNCHANGED <<chain, parsed, made, mergeVars, blueprintVars, powerVars>>

ExecAllInto ==
    /\ Running
    /\ \E r \in ChainRecipes : \E i \in RecipeIngredients(r) : ArmAllInto(i, r)
    /\ steps' = steps + 1
    /\ UNCHANGED <<chain, parsed, made, mergeVars, blueprintVars, powerVars>>

ExecUse ==
    /\ Running
    /\ \E r \in ChainRecipes : \E i \in RecipeIngredients(r) :
          \E f \in UseFractions : ArmUse(f, i, r)
    /\ steps' = steps + 1
    /\ UNCHANGED <<chain, parsed, made, mergeVars, blueprintVars, powerVars>>

\* The chain is exhausted: print_chain, Ok(()).
Finish ==
    /\ pc = "exec"
    /\ pc' = "done"
    /\ UNCHANGED <<groups, current_group, last, steps, chain, parsed, made>>
    /\ UNCHANGED <<mergeVars, blueprintVars, powerVars>>

NoCall == [called |-> FALSE]

\* Nothing has been merged, sized or priced yet.
Idle ==
    /\ into = <<>>
    /\ merged = <<>>
    /\ bp_recipe = NoCall
    /\ suggestion = NoCall
    /\ power = NoCall
    /\ power_before = NoCall

\* No action has run yet.
Start == "Start"

Init ==
    /\ Idle
    /\ groups = <<>>
    /\ current_group = None
    /\ pc = "exec"
    /\ last = Start
    /\ steps = 0
    /\ chain = <<>>
    /\ parsed = <<>>
    /\ made = TRUE

Next == ExecComment \/ ExecGroup \/ ExecMine \/ ExecAllInto \/ ExecUse \/ Finish

Spec == Init /\ [][Next]_vars

-----------------------------------------------------------------------------
(* Action::parse.  A line, trimmed, is given by its shape: the keyword it  *)
(* starts with and the fields that follow.  A numeric field is the         *)
(* sequence of its characters.                                             *)

Digits == <<"0", "1", "2", "3", "4", "5", "6", "7", "8", "9">>

\* Decimal digits of other scripts, each written as its code point:
\* ARABIC-INDIC DIGIT THREE and DEVANAGARI DIGIT ONE.
OtherDigits == {"U+0663", "U+0967"}

IsAsciiDigit(c) == \E k \in 1..10 : Digits[k] = c
DigitValue(c) == (CHOOSE k \in 1..10 : Digits[k] = c) - 1

\* \d of the regex crate: any character of the Unicode class Nd.
IsDigit(c) == IsAsciiDigit(c) \/ c \in OtherDigits

\* The character class [\d|\.]+ of RE_MINE and RE_USE_INTO.
MatchesNumberClass(n) ==
    /\ Len(n) > 0
    /\ \A k \in 1..Len(n) : IsDigit(n[k]) \/ n[k] = "|" \/ n[k] = "."

\* 10^k
RECURSIVE BPow10(_)
BPow10(k) ==
    IF k < 5 THEN BOf(10^k)
    ELSE IF k <= 100 THEN BMul(BPow10(k \div 2), BPow10(k - k \div 2))
    ELSE BMul(BPow10(k - 100), BPow10(100))

\* the number that the ASCII digits ds[i], ..., ds[j] write
RECURSIVE Few(_, _, _)
Few(ds, i, j) == IF i > j THEN 0 ELSE 10 * Few(ds, i, j - 1) + DigitValue(ds[j])

RECURSIVE Number(_, _, _)
Number(ds, i, j) ==
    IF j - i < 4 THEN BOf(Few(ds, i, j))
    ELSE IF j - i < 100
         THEN BAdd(BMul(Number(ds, i, (i + j) \div 2), BPow10(j - (i + j) \div 2)),
                   Number(ds, (i + j) \div 2 + 1, j))
    ELSE BAdd(BMul(Number(ds, i, j - 100), BPow10(100)), Number(ds, j - 99, j))

\* the zeros that ds starts with from ds[k] on
RECURSIVE LeadingZeros(_, _)
LeadingZeros(ds, k) ==
    IF k > Len(ds) \/ ds[k] # "0" THEN 0 ELSE 1 + LeadingZeros(ds, k + 1)

\* The f64 nearest to s * ds / 10^after, for the digits ds of which the first
\* zeros are leading zeros.  A number of 310 digits or more before the point
\* is above every finite f64 and one below 10^-324 is nearer to 0 than to
\* any other f64.
Decimal(s, ds, after, zeros) ==
    IF zeros = Len(ds) \/ zeros - (Len(ds) - after) >= 324 THEN <<s, MinExp, <<>>>>
    ELSE IF Len(ds) - after - zeros >= 310 THEN <<s, InfExp, <<>>>>
    ELSE Round(Ratio(s, Number(ds, zeros + 1, Len(ds)), BPow10(after)))

\* str::parse::<f64> on a string of digits, points, bars and signs: an
\* optional leading sign, then ASCII digits with at most one point and at
\* least one digit, giving the nearest f64, an infinity when that is out of
\* range; anything else is a ParseFloatError.
parse_float(n) ==
    LET signed == Len(n) > 0 /\ (n[1] = "-" \/ n[1] = "+")
        m == IF signed THEN Tail(n) ELSE n
        points == {k \in 1..Len(m) : m[k] = "."}
        digits == {k \in 1..Len(m) : IsAsciiDigit(m[k])}
    IN  IF digits \cup points # 1..Len(m) \/ Cardinality(points) > 1 \/ digits = {}
        THEN Err
        ELSE Ok(Decimal(IF signed /\ n[1] = "-" THEN -1 ELSE 1,
                        SelectSeq(m, IsAsciiDigit),
                        Cardinality({k \in digits : \E d \in points : k > d}),
                        LeadingZeros(SelectSeq(m, IsAsciiDigit), 1)))

\* The characters of the names of the catalog and of the queries of the lines.
Chars(s) ==
    CASE s = "Iron Ingot" ->
            <<"I", "r", "o", "n", " ", "I", "n", "g", "o", "t">>
      [] s = "Alloy Plate" ->
            <<"A", "l", "l", "o", "y", " ", "P", "l", "a", "t", "e">>
      [] s = "Washed Ore" ->
            <<"W", "a", "s", "h", "e", "d", " ", "O", "r", "e">>
      [] s = "Double Ore Plate" ->
            <<"D", "o", "u", "b", "l", "e", " ", "O", "r", "e", " ", "P", "l", "a", "t",
              "e">>
      [] s = "Aluminum Scrap" ->
            <<"A", "l", "u", "m", "i", "n", "u", "m", " ", "S", "c", "r", "a", "p">>
      [] s = "Heavy Modular Frame" ->
            <<"H", "e", "a", "v", "y", " ", "M", "o", "d", "u", "l", "a", "r", " ", "F",
              "r", "a", "m", "e">>
      [] s = "Time Crystal" ->
            <<"T", "i", "m", "e", " ", "C", "r", "y", "s", "t", "a", "l">>
      [] s = "Burn Uranium" ->
            <<"B", "u", "r", "n", " ", "U", "r", "a", "n", "i", "u", "m">>
      [] s = "Iron Ore" ->
            <<"I", "r", "o", "n", " ", "O", "r", "e">>
      [] s = "Iron Plate" ->
            <<"I", "r", "o", "n", " ", "P", "l", "a", "t", "e">>
      [] s = "Water" ->
            <<"W", "a", "t", "e", "r">>
      [] s = "Uranium Fuel Rod" ->
            <<"U", "r", "a", "n", "i", "u", "m", " ", "F", "u", "e", "l", " ", "R", "o",
              "d">>
      [] s = "Uranium Waste" ->
            <<"U", "r", "a", "n", "i", "u", "m", " ", "W", "a", "s", "t", "e">>
      [] s = "Diamonds" ->
            <<"D", "i", "a", "m", "o", "n", "d", "s">>
      [] s = "Alumina Solution" ->
            <<"A", "l", "u", "m", "i", "n", "a", " ", "S", "o", "l", "u", "t", "i", "o",
              "n">>
      [] s = "Coal" ->
            <<"C", "o", "a", "l">>
      [] s = "Modular Frame" ->
            <<"M", "o", "d", "u", "l", "a", "r", " ", "F", "r", "a", "m", "e">>
      [] s = "Steel Pipe" ->
            <<"S", "t", "e", "e", "l", " ", "P", "i", "p", "e">>
      [] s = "Encased Industrial Beam" ->
            <<"E", "n", "c", "a", "s", "e", "d", " ", "I", "n", "d", "u", "s", "t", "r",
              "i", "a", "l", " ", "B", "e", "a", "m">>
      [] s = "Screw" ->
            <<"S", "c", "r", "e", "w">>
      [] s = "Gold" ->
            <<"G", "o", "l", "d">>
      [] s = "Nothing" ->
            <<"N", "o", "t", "h", "i", "n", "g">>
      [] s = "ingot" ->
            <<"i", "n", "g", "o", "t">>
      [] s = "ore" ->
            <<"o", "r", "e">>
      [] s = "Ore" ->
            <<"O", "r", "e">>
      [] s = "Iron" ->
            <<"I", "r", "o", "n">>
      [] s = "Iron Ingo" ->
            <<"I", "r", "o", "n", " ", "I", "n", "g", "o">>
      [] s = "water" ->
            <<"w", "a", "t", "e", "r">>

UpperCase == <<"A", "B", "C", "D", "E", "F", "G", "H", "I", "J", "K", "L", "M",
               "N", "O", "P", "Q", "R", "S", "T", "U", "V", "W", "X", "Y", "Z">>
LowerCase == <<"a", "b", "c", "d", "e", "f", "g", "h", "i", "j", "k", "l", "m",
               "n", "o", "p", "q", "r", "s", "t", "u", "v", "w", "x", "y", "z">>

IsUpper(c) == \E k \in 1..26 : UpperCase[k] = c
Lower(c) == IF IsUpper(c) THEN LowerCase[CHOOSE k \in 1..26 : UpperCase[k] = c] ELSE c

\* SkimMatcherV2::default().fuzzy_match(choice, pattern) is Some(score): the
\* characters of the pattern are among those of the choice, in their order;
\* their case counts when the pattern has an upper-case letter (smart case).
fuzzy_match(choice, pattern) ==
    LET c == Chars(choice)
        p == Chars(pattern)
        respect == \E k \in 1..Len(p) : IsUpper(p[k])
        Same(a, b) == IF respect THEN a = b ELSE Lower(a) = Lower(b)
        RECURSIVE Go(_, _)
        Go(i, j) == IF j > Len(p) THEN TRUE
                    ELSE IF i > Len(c) THEN FALSE
                    ELSE IF Same(c[i], p[j]) THEN Go(i + 1, j + 1)
                    ELSE Go(i + 1, j)
    IN  Go(1, 1)

\* The three lookups sort the candidates that match by score and take the
\* last.  The score is SkimMatcherV2's and the order of equal scores is
\* that of a HashMap's iteration, so each lookup is given by the set of the
\* results it can have: any candidate that matches, or the error.

\* find_recipe: the catalog entries the query can find.
find_recipe(recipe_query) ==
    LET hits == {r \in all_recipes : fuzzy_match(r.name, recipe_query)}
    IN  IF hits = {} THEN {Err} ELSE {Ok(r) : r \in hits}

\* find_ingredient_in_recipe: searches recipe.ingredients(), inputs and
\* outputs alike.
find_ingredient_in_recipe(recipe, ingredient_query) ==
    LET all == ingredients(recipe)
        hits == {k \in 1..Len(all) : fuzzy_match(all[k].part, ingredient_query)}
    IN  IF hits = {} THEN {Err} ELSE {Ok(all[k]) : k \in hits}

\* find_ingredient_name: the canonical names of the catalog's parts that
\* the query can find.
find_ingredient_name(ingredient_query) ==
    LET hits == {p \in Parts : fuzzy_match(p, ingredient_query)}
    IN  IF hits = {} THEN {Err} ELSE {Ok(p) : p \in hits}

\* parse_ingredient(part, Some(number), None)
parse_ingredient_mined(part, number) ==
    LET amount == parse_float(number)
    IN  IF ~amount.ok THEN {Err}
        ELSE {IF ~i.ok THEN Err ELSE Ok(Ingredient(i.value, amount.value)) :
                  i \in find_ingredient_name(part)}

\* parse_ingredient(part, None, Some(recipe))
parse_ingredient_of(part, recipe) ==
    {IF ~i.ok THEN Err ELSE Ok(Ingredient(i.value.part, FZero)) :
         i \in find_ingredient_in_recipe(recipe, part)}

\* Action::parse: the results the call can have.
parse(v) ==
    CASE v.kw = "#" /\ v.text # "" ->
            {Ok([kind |-> "Comment", text |-> v.text])}
      [] v.kw = "group" /\ v.name # "" ->
            {Ok([kind |-> "Group", name |-> v.name])}
      [] v.kw = "mine" /\ MatchesNumberClass(v.number) ->
            {IF ~i.ok THEN Err ELSE Ok([kind |-> "Mine", ingredient |-> i.value]) :
                 i \in parse_ingredient_mined(v.part, v.number)}
      [] v.kw = "all" ->
            UNION {IF ~r.ok THEN {Err}
                   ELSE {IF ~i.ok THEN Err
                         ELSE Ok([kind |-> "AllInto", ingredient |-> i.value,
                                  recipe |-> r.value]) :
                             i \in parse_ingredient_of(v.part, r.value)} :
                       r \in find_recipe(v.recipe)}
      [] v.kw = "use" /\ MatchesNumberClass(v.number) ->
            UNION {IF ~r.ok THEN {Err}
                   ELSE LET f == parse_float(v.number)
                        IN  {IF ~f.ok \/ ~i.ok THEN Err
                             ELSE Ok([kind |-> "Use", fraction |-> f.value,
                                      ingredient |-> i.value, recipe |-> r.value]) :
                                 i \in parse_ingredient_of(v.part, r.value)} :
                       r \in find_recipe(v.recipe)}
      [] OTHER -> {Err}

Line(kw, number, part, recipe, name, text) ==
    [kw |-> kw, number |-> number, part |-> part, recipe |-> recipe,
     name |-> name, text |-> text]

GroupLine == Line("group", <<>>, "", "", "G1", "")
MineLine  == Line("mine", <<"1", "0", "0">>, Ore, "", "", "")
AllLine   == Line("all", <<>>, Ore, "Iron Ingot", "", "")

Lines ==
    {Line("", <<>>, "", "", "", ""),                           \* blank
     Line("#", <<>>, "", "", "", "iron chain"),                \* comment
     Line("#", <<>>, "", "", "", ""),                          \* bare #
     GroupLine,
     MineLine,
     Line("mine", <<"1", ".", ".">>, Ore, "", "", ""),         \* two points
     Line("mine", <<"-", "5">>, Ore, "", "", ""),              \* signed
     Line("mine", <<"U+0663", "0">>, Ore, "", "", ""),         \* Arabic digit
     Line("mine", <<"3", "0">>, "Gold", "", "", ""),           \* unknown part
     AllLine,
     Line("all", <<>>, "ore", "ingot", "", ""),                \* fuzzy names
     Line("all", <<>>, Ore, "Nothing", "", ""),                \* no recipe
     Line("all", <<>>, Plate, "Iron Ingot", "", ""),           \* not in recipe
     Line("all", <<>>, Ingot, "Iron Ingot", "", ""),           \* an output
     Line("use", <<"0", ".", "5">>, Ore, "Iron Ingot", "", ""),
     Line("use", <<"1", "|", "2">>, Ore, "Iron Ingot", "", ""),
     Line("build", <<>>, "", "", "", "")}                      \* no keyword

-----------------------------------------------------------------------------
(* SpecChain: process_chain from its call, on every chain of at most       *)
(* MaxLines lines.                                                         *)

MaxLines == 3

Chains == UNION {[1..n -> Lines] : n \in 0..MaxLines}

is_empty(s) == s.kw = ""

\* chain.iter().map(trim).filter(!is_empty).map(|s| (s, Action::parse(s))).collect():
\* the vectors it can give.
collect(c) ==
    LET RECURSIVE Go(_)
        Go(k) == IF k > Len(c) THEN {<<>>}
                 ELSE IF is_empty(c[k]) THEN Go(k + 1)
                 ELSE {<<[line |-> c[k], action |-> a]>> \o rest :
                           a \in parse(c[k]), rest \in Go(k + 1)}
    IN  Go(1)

any_err_first(p) == Len(p) > 0 /\ ~p[1].action.ok
any_err(p) == \E k \in 1..Len(p) : ~p[k].action.ok

\* Lines 82-95: parse every line, bail if any failed, else make the ChainState.
ParseChain ==
    /\ pc = "parse"
    /\ parsed' \in collect(chain)
    /\ IF any_err(parsed')
       THEN /\ pc' = "err"
            /\ UNCHANGED <<made, groups, current_group>>
       ELSE /\ pc' = "exec"
            /\ made' = TRUE
            /\ groups' = <<>>
            /\ current_group' = None
    /\ UNCHANGED <<last, steps, chain, mergeVars, blueprintVars, powerVars>>

\* Lines 117-134: the next action of the chain.
ChainStep ==
    /\ pc = "exec"
    /\ steps < Len(parsed)
    /\ LET a == parsed[steps + 1].action.value
       IN  CASE a.kind = "Comment" -> ArmComment
             [] a.kind = "Group" -> ArmGroup(a.name)
             [] a.kind = "Mine" -> ArmMine(a.ingredient)
             [] a.kind = "AllInto" -> ArmAllInto(a.ingredient, a.recipe)
             [] a.kind = "Use" -> ArmUse(a.fraction, a.ingredient, a.recipe)
    /\ steps' = steps + 1
    /\ UNCHANGED <<chain, parsed, made, mergeVars, blueprintVars, powerVars>>

\* Lines 136-137: print_chain, Ok(()).
ChainFinish ==
    /\ pc = "exec"
    /\ steps = Len(parsed)
    /\ pc' = "done"
    /\ UNCHANGED <<groups, current_group, last, steps, chain, parsed, made>>
    /\ UNCHANGED <<mergeVars, blueprintVars, powerVars>>

InitChain ==
    /\ Idle
    /\ chain \in Chains
    /\ parsed = <<>>
    /\ pc = "parse"
    /\ made = FALSE
    /\ groups = <<>>
    /\ current_group = None
    /\ last = Start
    /\ steps = 0

NextChain == ParseChain \/ ChainStep \/ ChainFinish

SpecChain == InitChain /\ [][NextChain]_vars

-----------------------------------------------------------------------------
(* SpecLines: process_chain on the chains that parse, line by line.        *)
(* Parsing is line by line and the loop runs the actions in the order of   *)
(* the lines, so the chains whose every line parses are run by choosing    *)
(* the next line at each step; a line that fails to parse is in no such    *)
(* chain.                                                                  *)

UseOver == Line("use", <<"1", ".", "5">>, Ore, "Iron Ingot", "", "")

\* A numeral of 309 digits, above every finite f64.
MineBeyond == Line("mine", [k \in 1..309 |-> "9"], Ore, "", "", "")
UseNone == Line("use", <<"0">>, Ore, "Iron Ingot", "", "")

MoreLines ==
    Lines \cup
    {Line("mine", <<"3", "0">>, Ingot, "", "", ""),
     Line("mine", <<"1", "0", "0">>, "water", "", "", ""),
     Line("all", <<>>, Ingot, "Alloy Plate", "", ""),
     Line("all", <<>>, "Ore", "Ore", "", ""),                  \* two matches
     Line("all", <<>>, "Water", "Burn Uranium", "", ""),
     UseOver,
     MineBeyond,
     UseNone,
     Line("mine", <<"0", ".", "1">>, Ore, "", "", ""),
     Line("use", <<"0">>, Ore, "Alloy Plate", "", ""),
     Line("use", <<"-", "0", ".", "5">>, Ore, "Iron Ingot", "", "")}

\* The next line of the chain is s: it parsed, and its action is run.
ExecLine ==
    /\ Running
    /\ \E s \in MoreLines :
          /\ ~is_empty(s)
          /\ \E res \in parse(s) :
                /\ res.ok
                /\ chain' = Append(chain, s)
                /\ parsed' = Append(parsed, [line |-> s, action |-> res])
                /\ LET a == res.value
                   IN  CASE a.kind = "Comment" -> ArmComment
                         [] a.kind = "Group" -> ArmGroup(a.name)
                         [] a.kind = "Mine" -> ArmMine(a.ingredient)
                         [] a.kind = "AllInto" -> ArmAllInto(a.ingredient, a.recipe)
                         [] a.kind = "Use" -> ArmUse(a.fraction, a.ingredient, a.recipe)
    /\ steps' = steps + 1
    /\ UNCHANGED <<made, mergeVars, blueprintVars, powerVars>>

NextLines == ExecLine \/ Finish

SpecLines == Init /\ [][NextLines]_vars

-----------------------------------------------------------------------------
(* SpecMerge: Ingredient::merge_with called again and again on one vector, *)
(* starting from Vec::new(), as balances() and the Mine arm do.            *)

MaxMerged == 3

\* The quantities merged: an Ingredient is any part with any f64.
MergeQuantities == {OfInt(-30), OfInt(20), Float(<<1, 2>>), Float(<<1, 10>>),
                    TwoTo(1023), FInf, FNeg(FInf)}

MergeWith ==
    /\ Len(merged) < MaxMerged
    /\ \E p \in {Ore, Ingot, Plate}, q \in MergeQuantities :
          /\ into' = merge_with(Ingredient(p, q), into)
          /\ merged' = Append(merged, Ingredient(p, q))
    /\ UNCHANGED <<chainVars, blueprintVars, powerVars>>

\* Nothing is running: no chain is being processed.
InitIdle ==
    /\ Idle
    /\ groups = <<>>
    /\ current_group = None
    /\ pc = "idle"
    /\ last = Start
    /\ steps = 0
    /\ chain = <<>>
    /\ parsed = <<>>
    /\ made = FALSE

NextMerge == MergeWith

SpecMerge == InitIdle /\ [][NextMerge]_vars

-----------------------------------------------------------------------------
(* types.rs: State, the transport of a part, and the blueprint sizing.     *)

belt_ipm == 780
pipe_ipm == 600
pref_multiple_assembler == 3
pref_multiple_blender == 2
pref_multiple_constructor == 3
pref_multiple_converter == 1
pref_multiple_foundry == 3
pref_multiple_manufacturer == 2
pref_multiple_nuclear_power_plant == 1
pref_multiple_packager == 4
pref_multiple_particle_accelerator == 1
pref_multiple_refinery == 4
pref_multiple_smelter == 4

\* State::default()
default ==
    [belt_ipm |-> OfInt(belt_ipm),
     pipe_ipm |-> OfInt(pipe_ipm),
     pref_multiple_assembler |-> OfInt(pref_multiple_assembler),
     pref_multiple_blender |-> OfInt(pref_multiple_blender),
     pref_multiple_constructor |-> OfInt(pref_multiple_constructor),
     pref_multiple_converter |-> OfInt(pref_multiple_converter),
     pref_multiple_foundry |-> OfInt(pref_multiple_foundry),
     pref_multiple_manufacturer |-> OfInt(pref_multiple_manufacturer),
     pref_multiple_nuclear_power_plant |-> OfInt(pref_multiple_nuclear_power_plant),
     pref_multiple_packager |-> OfInt(pref_multiple_packager),
     pref_multiple_particle_accelerator |-> OfInt(pref_multiple_particle_accelerator),
     pref_multiple_refinery |-> OfInt(pref_multiple_refinery),
     pref_multiple_smelter |-> OfInt(pref_multiple_smelter)]

prefered_building_multiple(state, building) ==
    CASE building = "Assembler" -> Ok(state.pref_multiple_assembler)
      [] building = "Blender" -> Ok(state.pref_multiple_blender)
      [] building = "Constructor" -> Ok(state.pref_multiple_constructor)
      [] building = "Converter" -> Ok(state.pref_multiple_converter)
      [] building = "Foundry" -> Ok(state.pref_multiple_foundry)
      [] building = "Manufacturer" -> Ok(state.pref_multiple_manufacturer)
      [] building = "Packager" -> Ok(state.pref_multiple_packager)
      [] building = "Particle Accelerator" -> Ok(state.pref_multiple_particle_accelerator)
      [] building = "Smelter" -> Ok(state.pref_multiple_smelter)
      [] building = "Refinery" -> Ok(state.pref_multiple_refinery)
      [] building = "Nuclear Power Plant" -> Ok(state.pref_multiple_nuclear_power_plant)
      [] OTHER -> Err

PipeParts == {"Alumina Solution", "Fuel", "Heavy Oil Residue", "Ionised Fuel",
              "Liquid Biofuel", "Nitric Acid", "Nitrogen Gas", "Crude Oil",
              "Rocket Fuel", "Sulfuric Acid", "Turbofuel", "Water",
              "Excited Photonic Matter", "Dark Matter Residue"}

transport(i) == IF i.part \in PipeParts THEN "Pipe" ELSE "Belt"

\* Recipe::max_outputs: the largest belt and the largest pipe quantity (a
\* quantity that is NaN is above nothing).
max_outputs(r) ==
    LET all == ingredients(r)
        RECURSIVE Go(_, _, _)
        Go(k, belt, pipe) ==
            IF k > Len(all) THEN <<belt, pipe>>
            ELSE IF transport(all[k]) = "Belt"
                 THEN Go(k + 1, IF FLt(belt, all[k].quantity) THEN all[k].quantity ELSE belt, pipe)
                 ELSE Go(k + 1, belt, IF FLt(pipe, all[k].quantity) THEN all[k].quantity ELSE pipe)
    IN  Go(1, FZero, FZero)

(***************************************************************************)
(* f64::powf with the exponent of calc_power_usage_mw.  The power is       *)
(* computed in fixed point, a natural number n standing for n / 2^65, to   *)
(* more places than an f64 has; powf is the set of the f64 within one unit *)
(* in the last place of it, since the precision of powf is left to the     *)
(* platform.                                                               *)
(***************************************************************************)
FracBits == 5 * 13
FOne == BShl(<<1>>, FracBits)
Sqrt2 == <<4625, 7116, 5113, 1945, 3393, 1>>
Log2E == <<750, 766, 2396, 4569, 3626, 1>>
Ln2 == <<4951, 7415, 7144, 2143, 5678>>

FixMul(a, b) == BShr(BMul(a, b), FracBits)

\* the terms t^(2k+1) / (2k+1) of atanh t, from the k-th on, given t^(2k+1)
RECURSIVE AtanhTerms(_, _, _)
AtanhTerms(odd, t2, k) ==
    IF k > 12 THEN <<>>
    ELSE <<BDivSmall(odd, 2 * k + 1)>> \o AtanhTerms(FixMul(odd, t2), t2, k + 1)

\* the terms z^k / k! of exp z, from the term before the k-th on
RECURSIVE ExpTerms(_, _, _)
ExpTerms(term, z, k) ==
    IF k > 17 THEN <<>>
    ELSE <<term>> \o ExpTerms(BDivSmall(FixMul(term, z), k), z, k + 1)

\* terms[i] + terms[i + step] + ... up to terms[j]
RECURSIVE SumEvery(_, _, _, _)
SumEvery(terms, i, j, step) ==
    IF i > j THEN <<>>
    ELSE IF i + step > j THEN terms[i]
    ELSE BAdd(SumEvery(terms, i, i + step * ((j - i) \div (2 * step)), step),
              SumEvery(terms, i + step * ((j - i) \div (2 * step)) + step, j, step))

PowerExponent == Float(<<1321928, 1000000>>)

\* a finite x > 0 as <<m, e>> with x = 2^e * m / 2^65 and m between sqrt(1/2)
\* and sqrt(2)
Halved(whole, e) ==
    IF BLt(Sqrt2, whole) THEN <<BShr(whole, 1), e + 1>> ELSE <<whole, e>>

Mantissa(x) ==
    Halved(BShl(x[3], FracBits - (BLen(x[3]) - 1)), x[2] + BLen(x[3]) - 1)

\* <<the sign of m - 1, t = |m - 1| / (m + 1), e>>
Reduced(me) ==
    <<IF BLt(me[1], FOne) THEN -1 ELSE 1,
      BNorm(LongDigits(BShl(IF BLt(me[1], FOne) THEN BSub(FOne, me[1])
                                                ELSE BSub(me[1], FOne),
                            FracBits + 13 - BLen(BAdd(me[1], FOne))),
                       BShl(BAdd(me[1], FOne), FracBits + 13 - BLen(BAdd(me[1], FOne))), FracBits \div 13)[1]),
      me[2]>>

Atanh(terms) == SumEvery(terms, 1, Len(terms), 1)

\* log2 x = e + 2 atanh(t) log2(e), as <<its sign, its size in fixed point>>
Log2(ste) ==
    Sum(<<IF ste[3] < 0 THEN -1 ELSE 1, -FracBits,
          BShl(BOf(IF ste[3] < 0 THEN -ste[3] ELSE ste[3]), FracBits)>>,
        <<ste[1], -FracBits,
          FixMul(BShl(Atanh(AtanhTerms(ste[2], FixMul(ste[2], ste[2]), 0)), 1), Log2E)>>)

\* the whole part i of s * w and the rest f as <<i, 1, f>>, or <<i + 1, -1, 1 - f>>
\* when f is above 1/2
Split(s, w, int) ==
    CHOOSE isf \in {IF BLt(BShr(FOne, 1), f[2]) THEN <<f[1] + 1, -1, BSub(FOne, f[2])>>
                                                ELSE <<f[1], 1, f[2]>> :
        f \in {IF s = 1 THEN <<int, BSub(w, BShl(BOf(int), FracBits))>>
               ELSE IF w = BShl(BOf(int), FracBits) THEN <<-int, <<>>>>
               ELSE <<-int - 1, BSub(BShl(BOf(int + 1), FracBits), w)>>}} : TRUE

Whole(w) == Digit(w, FracBits \div 13 + 1) + Base * Digit(w, FracBits \div 13 + 2)

\* PowerExponent * log2 x
Times(log) ==
    CHOOSE isf \in {Split(log[1], w, Whole(w)) :
        w \in {BShr(BMul(PowerExponent[3], log[3]), -PowerExponent[2])}} : TRUE

ExpSum(s, terms) ==
    IF s = 1 THEN BAdd(SumEvery(terms, 1, Len(terms), 2), SumEvery(terms, 2, Len(terms), 2))
             ELSE BSub(SumEvery(terms, 1, Len(terms), 2), SumEvery(terms, 2, Len(terms), 2))

\* <<a, i>> with 2^(i + s f) = 2^i * a / 2^65
Exp2(isf) == <<ExpSum(isf[2], ExpTerms(FOne, FixMul(isf[3], Ln2), 1)), isf[1]>>

\* the f64 within one unit in the last place of 2^i * a / 2^65
Nearby(ai) ==
    {Rounded(<<1, ai[2] - FracBits, BSub(ai[1], BAdd(BShr(ai[1], 58), <<1>>))>>, "down"),
     Round(<<1, ai[2] - FracBits, ai[1]>>),
     Rounded(<<1, ai[2] - FracBits, BAdd(ai[1], BAdd(BShr(ai[1], 58), <<1>>))>>, "up")}

\* x.powf(PowerExponent): of 1 it is 1, of a zero +0, of an infinity
\* +infinity and of NaN or a number below 0 NaN, as the pow of C is
powf(x) ==
    IF IsNaN(x) THEN {NaN}
    ELSE IF x = OfInt(1) THEN {OfInt(1)}
    ELSE IF IsZero(x) THEN {FZero}
    ELSE IF IsInf(x) THEN {FInf}
    ELSE IF x[1] = -1 THEN {NaN}
    ELSE UNION {Nearby(ai) : ai \in {Exp2(isf) : isf \in {Times(log) : log \in
                   {Log2(ste) : ste \in {Reduced(me) : me \in {Mantissa(x)}}}}}}

base_power_usage(building) ==
    CASE building = "Assembler" -> Ok(OfInt(15))
      [] building = "Blender" -> Ok(OfInt(75))
      [] building = "Constructor" -> Ok(OfInt(4))
      [] building = "Converter" -> Ok(OfInt(1))
      [] building = "Foundry" -> Ok(OfInt(16))
      [] building = "Manufacturer" -> Ok(OfInt(55))
      [] building = "Packager" -> Ok(OfInt(10))
      [] building = "Refinery" -> Ok(OfInt(30))
      [] building = "Smelter" -> Ok(OfInt(4))
      [] building = "Particle Accelerator" -> Ok(OfInt(1))
      [] building = "Nuclear Power Plant" -> Ok(OfInt(-2500))
      [] OTHER -> Err

\* calc_power_usage_mw: the results the call can have, an error or the base
\* power times one of the values of powf.
calc_power_usage_mw_flat(building, clock) ==
    IF ~base_power_usage(building).ok THEN {Err}
    ELSE IF FLe(clock, FZero) THEN {Err}
    ELSE IF FLe(Float(<<5, 2>>), clock) THEN {Err}
    ELSE {Ok(base_power_usage(building).value)}
calc_power_usage_mw(building, clock) ==
    IF ~base_power_usage(building).ok THEN {Err}
    ELSE IF FLe(clock, FZero) THEN {Err}
    ELSE IF FLe(Float(<<5, 2>>), clock) THEN {Err}
    ELSE {Ok(FMul(base_power_usage(building).value, v)) : v \in powf(clock)}

\* Line 174: n_boxes * pref_mult * calc_power_usage_mw(building, clock)?
power_usage_mw(n_boxes, pref_mult, building, clock) ==
    {IF ~unit.ok THEN Err ELSE Ok(FMul(FMul(n_boxes, pref_mult), unit.value)) :
         unit \in calc_power_usage_mw(building, clock)}

\* Line 167: n_boxes.fract().abs() > 0.0001 (the fract of an infinity is NaN,
\* which is above nothing).
needs_adjusting_beyond_half(n_boxes) == FLt(Float(<<1, 2>>), FAbs(Fract(n_boxes)))
needs_adjusting(n_boxes) == FLt(Float(<<1, 10000>>), FAbs(Fract(n_boxes)))

\* Lines 169-171: the next integer up, each box under-clocked.
adjusted_clock_only(n_boxes) ==
    [n_boxes |-> n_boxes, clock |-> FDiv(n_boxes, Ceil(n_boxes))]
adjusted(n_boxes) ==
    [n_boxes |-> Ceil(n_boxes), clock |-> FDiv(n_boxes, Ceil(n_boxes))]

\* Lines 151-155: whether a belt and a pipe are used and how many machines
\* each feeds, for the maxima mo of the recipe.
transported(state, mo) ==
    [use_belt |-> FLe(Float(<<1, 100000>>), mo[1]),
     use_pipe |-> FLe(Float(<<1, 100000>>), mo[2]),
     m_per_belt |-> FDiv(state.belt_ipm, mo[1]),
     m_per_pipe |-> FDiv(state.pipe_ipm, mo[2])]

\* Lines 156-162.
m_per_transport(t) ==
    IF t.use_belt /\ t.use_pipe THEN FMin(t.m_per_belt, t.m_per_pipe)
    ELSE IF t.use_belt THEN t.m_per_belt
    ELSE t.m_per_pipe

\* Lines 165-172: the boxes and their clock for n_boxes = m_per_transport /
\* pref_mult.
sized(n_boxes) ==
    IF needs_adjusting(n_boxes) THEN adjusted(n_boxes)
    ELSE [n_boxes |-> n_boxes, clock |-> OfInt(1)]

\* Lines 174-185: the suggestion, unless the power has no value.
suggestion_of(t, pref_mult, s, power_usage) ==
    IF ~power_usage.ok THEN Err
    ELSE Ok([use_belt |-> t.use_belt,
             use_pipe |-> t.use_pipe,
             m_per_belt |-> t.m_per_belt,
             m_per_pipe |-> t.m_per_pipe,
             n_boxes |-> s.n_boxes,
             pref_mult |-> pref_mult,
             clock |-> s.clock,
             power_usage_mw |-> power_usage.value])

\* Recipe::suggest_blueprint from line 164 on, for the building it looks up:
\* the results the call can have.
blueprint_for(state, building, t) ==
    IF ~prefered_building_multiple(state, building).ok THEN {Err}
    ELSE UNION {UNION {{suggestion_of(t, pref_mult, s, usage) :
                           usage \in power_usage_mw(s.n_boxes, pref_mult, building, s.clock)} :
                       s \in {sized(FDiv(m_per_transport(t), pref_mult))}} :
                pref_mult \in {prefered_building_multiple(state, building).value}}

\* Recipe::suggest_blueprint.
suggest_blueprint_guessing(r, state) ==
    blueprint_for(state,
                  IF prefered_building_multiple(state, r.building).ok
                  THEN r.building ELSE "Converter",
                  transported(state, max_outputs(r)))
suggest_blueprint(r, state) ==
    blueprint_for(state, r.building, transported(state, max_outputs(r)))

-----------------------------------------------------------------------------
(* SpecBlueprint: suggest_blueprint on a recipe and a State.  The recipe   *)
(* is one of the catalog or one of any building, with a preferred multiple *)
(* or without, with a belt input and maybe a pipe output; the State is the *)
(* default one or another.  suggest_blueprint reads nothing else: a run is *)
(* one call.                                                               *)

Buildings == {"Assembler", "Blender", "Constructor", "Converter", "Foundry",
              "Manufacturer", "Packager", "Particle Accelerator", "Smelter",
              "Refinery", "Nuclear Power Plant"}

\* The default State, the one of the rates that types.rs keeps in comments
\* (480 and 300), and one with multiples below 0 and an infinite multiple.
States ==
    {default,
     [default EXCEPT !.belt_ipm = OfInt(480), !.pipe_ipm = OfInt(300)],
     [default EXCEPT !.pref_multiple_converter = OfInt(-1),
                     !.pref_multiple_smelter = OfInt(-4),
                     !.pref_multiple_foundry = FInf]}

\* 780/60 = 13 and 780/65 = 12 machines per belt and 780/45 = 17 1/3; the
\* next two quantities put 12 + 1/20000 and 12 - 1/20000 machines on a belt,
\* 15600000 puts 1/20000 of a machine and 7000000 a little more than 1/10000;
\* 0, 1/1000000 and 2^-1020 leave the transport unused, and the machines the
\* last one feeds are too many for an f64.
BeltQuantities == {FZero, OfInt(45), OfInt(60), OfInt(65),
                   Float(<<15600000, 240001>>), Float(<<15600000, 239999>>),
                   OfInt(15600000), OfInt(7000000), TwoTo(-1020),
                   FInf, NaN, OfInt(-60)}
PipeQuantities == {OfInt(120), OfInt(50), Float(<<1, 1000000>>), TwoTo(-1020),
                   TwoTo(-1010), FInf}

\* Buildings of each preferred multiple of the States, with a base power
\* above 0 and below it, and one that no State has a multiple for.
SizedBuildings == {"Converter", "Smelter", "Foundry", "Manufacturer", "Assembler",
                   "Nuclear Power Plant", "Miner"}

BlueprintRecipes ==
    {Recipe("Sized", b, Some(Ingredient(Ore, q)), None, None, None, o, None) :
        b \in SizedBuildings,
        q \in BeltQuantities,
        o \in {None} \cup {Some(Ingredient("Water", w)) : w \in PipeQuantities}}
    \cup all_recipes

SuggestBlueprint ==
    /\ ~bp_recipe.called
    /\ \E r \in BlueprintRecipes, s \in States :
          /\ bp_recipe' = [called |-> TRUE, recipe |-> r, state |-> s]
          /\ suggestion' \in suggest_blueprint(r, s)
    /\ UNCHANGED <<chainVars, mergeVars, powerVars>>

NextBlueprint == SuggestBlueprint

SpecBlueprint == InitIdle /\ [][NextBlueprint]_vars

-----------------------------------------------------------------------------
(* SpecPower: line 174 of suggest_blueprint, n_boxes * pref_mult *         *)
(* calc_power_usage_mw(building, clock)?, for a building, a number of      *)
(* boxes and a multiple at one clock and then at another.                  *)

\* The f64 next above a finite x > 0.
NextUp(x) == Rounded(Sum(x, <<1, x[2] - 1, <<1>>>>), "up")

\* A clock and a clock to follow it: clocks far apart, clocks one and two
\* units in the last place apart, clocks one part in 2^49 apart and a unit
\* more, clocks whose powers are too small for an f64, and clocks out of the
\* domain of calc_power_usage_mw.
ClockPairs ==
    {<<Float(<<1, 10>>), Float(<<1, 4>>)>>,
     <<Float(<<1, 3>>), Float(<<2, 3>>)>>,
     <<Float(<<1, 2>>), OfInt(1)>>,
     <<Float(<<13, 15>>), Float(<<24, 25>>)>>,
     <<OfInt(1), Float(<<3, 2>>)>>,
     <<OfInt(2), Float(<<249, 100>>)>>,
     <<OfInt(1), Float(<<1, 2>>)>>,
     <<Float(<<1, 4>>), NextUp(Float(<<1, 4>>))>>,
     <<Float(<<7, 10>>), NextUp(Float(<<7, 10>>))>>,
     <<Float(<<7, 10>>), NextUp(NextUp(Float(<<7, 10>>)))>>,
     <<Float(<<9, 10>>), FMul(Float(<<9, 10>>), NextUp(NextUp(NextUp(NextUp(OfInt(1))))))>>,
     <<OfInt(1), FAdd(OfInt(1), TwoTo(-49))>>,
     <<OfInt(1), NextUp(FAdd(OfInt(1), TwoTo(-49)))>>,
     <<Float(<<3, 5>>), NextUp(FMul(Float(<<3, 5>>), FAdd(OfInt(1), TwoTo(-49))))>>,
     <<TwoTo(-700), NextUp(FMul(TwoTo(-700), FAdd(OfInt(1), TwoTo(-49))))>>,
     <<TwoTo(-700), TwoTo(-699)>>,
     <<TwoTo(-900), TwoTo(-850)>>,
     <<TwoTo(-1022), OfInt(1)>>,
     <<FZero, Float(<<1, 2>>)>>,
     <<OfInt(-1), Float(<<1, 2>>)>>,
     <<OfInt(2), Float(<<5, 2>>)>>,
     <<OfInt(1), OfInt(3)>>,
     <<NaN, OfInt(1)>>}

\* n_boxes and pref_mult: 5 boxes of 3, no box, 1/20000 of a box, and more
\* boxes than their power is an f64.
Boxes == {<<OfInt(5), OfInt(3)>>, <<FZero, OfInt(3)>>,
          <<Float(<<1, 20000>>), OfInt(1)>>, <<TwoTo(1020), OfInt(4)>>}

\* The first call, at the first clock of a pair.
CalcPower ==
    /\ ~power.called
    /\ \E b \in Buildings \cup {"Miner"}, n \in Boxes, c \in ClockPairs :
          \E res \in power_usage_mw(n[1], n[2], b, c[1]) :
              power' = [called |-> TRUE, building |-> b, n_boxes |-> n[1],
                        pref_mult |-> n[2], clock |-> c[1], result |-> res]
    /\ power_before' = power
    /\ UNCHANGED <<chainVars, mergeVars, blueprintVars>>

\* The second call, for the same building, boxes and multiple at a clock that
\* follows the first.
CalcPowerAgain ==
    /\ power.called
    /\ ~power_before.called
    /\ \E c \in ClockPairs :
          /\ c[1] = power.clock
          /\ \E res \in power_usage_mw(power.n_boxes, power.pref_mult, power.building, c[2]) :
                power' = [power EXCEPT !.clock = c[2], !.result = res]
    /\ power_before' = power
    /\ UNCHANGED <<chainVars, mergeVars, blueprintVars>>

NextPower == CalcPower \/ CalcPowerAgain

SpecPower == InitIdle /\ [][NextPower]_vars

-----------------------------------------------------------------------------
(* SpecBalances: Group::balances on any Group.  The fields of Group are    *)
(* public, so the group is any one with at most MaxEntries inputs, outputs *)
(* and recipes, a part held twice included.                                *)

MaxEntries == 2

RECURSIVE SeqsUpTo(_, _)
\* The sequences over S of length at most n.
SeqsUpTo(S, n) ==
    IF n = 0 THEN {<<>>}
    ELSE LET shorter == SeqsUpTo(S, n - 1)
         IN  shorter \cup {Append(q, x) : q \in {t \in shorter : Len(t) = n - 1}, x \in S}

BalanceInputs == {Ingredient(Ore, OfInt(30)), Ingredient(Ore, Float(<<1, 10>>)),
                  Ingredient(Ingot, OfInt(30)), Ingredient(Ingot, FInf)}
BalanceOutputs == {Ingredient(Ore, OfInt(20)), Ingredient(Plate, OfInt(20)),
                   Ingredient(Ore, TwoTo(1023))}
BalanceRecipes == {<<Float(<<1, 2>>), RAlloy>>,
                   <<Float(<<1, 10>>), RWash>>, <<OfInt(-1), RTwice>>,
                   <<Float(<<5, 3>>), RIngot>>, <<OfInt(2), RScrap>>,
                   <<Float(<<5, 12>>), BurnUranium>>, <<Tiny, BurnUranium>>}

BalanceGroups ==
    {[name |-> "G1", inputs |-> i, outputs |-> o, recipes |-> r] :
        i \in SeqsUpTo(BalanceInputs, MaxEntries),
        o \in SeqsUpTo(BalanceOutputs, MaxEntries),
        r \in SeqsUpTo(BalanceRecipes, MaxEntries)}

\* g.balances() for the group held in groups; the result is kept in into.
Balances ==
    /\ pc = "idle"
    /\ pc' = "balanced"
    /\ into' = balances(groups[current_group[1]])
    /\ UNCHANGED <<groups, current_group, last, steps, chain, parsed, made>>
    /\ UNCHANGED <<merged, blueprintVars, powerVars>>

InitBalances ==
    /\ Idle
    /\ \E g \in BalanceGroups : groups = [n \in {"G1"} |-> g]
    /\ current_group = Some("G1")
    /\ pc = "idle"
    /\ last = Start
    /\ steps = 0
    /\ chain = <<>>
    /\ parsed = <<>>
    /\ made = TRUE

NextBalances == Balances

SpecBalances == InitBalances /\ [][NextBalances]_vars

-----------------------------------------------------------------------------
(* The properties checked.                                                 *)

\* Real numbers.  A finite f64, and the sum and the product of two without
\* rounding (Sum, Product), is an exact binary fraction; two are compared
\* by their signs, their highest bits and then the sign of their difference.
Minus(a, b) == Sum(a, FNeg(b))
SignOf(x) == IF x[3] = <<>> THEN 0 ELSE x[1]
RealEq(a, b) == SignOf(Minus(a, b)) = 0
\* The place above the highest bit of a real number that is not 0.
TopBit(x) == x[2] + BLen(x[3])
RealLe(a, b) ==
    IF SignOf(a) # SignOf(b) THEN SignOf(a) < SignOf(b)
    ELSE IF SignOf(a) = 0 THEN TRUE
    ELSE IF TopBit(a) # TopBit(b) THEN (TopBit(a) < TopBit(b)) = (SignOf(a) = 1)
    ELSE SignOf(Minus(a, b)) <= 0

\* x * 2^k
TimesTwoTo(x, k) == <<x[1], x[2] + k, x[3]>>

\* x is a normal f64: finite, not 0 and not subnormal.  An operation whose
\* result is normal has neither overflowed nor underflowed.
Normal(x) == IsFinite(x) /\ BLen(x[3]) = 53

\* The entry of a balance b for a part, if there is one.
EntryOf(b, part) == get_ingredient_from(Ingredient(part, FZero), b)
BalanceOf(g, part) == EntryOf(balances(g), part)

\* The recipe uses the part in exactly one slot, and that slot is an input.
OnlyOneInput(r, part) ==
    /\ Cardinality({k \in 1..Len(ingredients(r)) : ingredients(r)[k].part = part}) = 1
    /\ \E k \in 1..Len(inputs(r)) : inputs(r)[k].part = part

\* The step just taken ran this action of the chain.
RanAllInto(i, r) == Running /\ last' = "AllInto" /\ ArmAllInto(i, r)
RanUse(f, i, r) == Running /\ last' = "Use" /\ ArmUse(f, i, r)
RanMine(i) == Running /\ last' = "Mine" /\ ArmMine(i)
RanGroup(name) == Running /\ last' = "Group" /\ ArmGroup(name)

Current == groups[current_group[1]]
CurrentAfter == groups'[current_group'[1]]

\* The scale of the entry that an allocation has just pushed, and the
\* quantity of the part that the recipe takes at scale 1.
LastScale(g) == g.recipes[Len(g.recipes)][1]
InputQuantity(r, part) == inputs(r)[FirstWith(part, inputs(r))].quantity

\* The allocation of the fraction f of the balance q at the scale s, to a
\* recipe that takes rq of the part, has neither overflowed nor underflowed:
\* nothing is allocated, or q * f, the scale and scale * rq are normal f64.
InRange(q, f, s, rq) ==
    IsFinite(q) /\ (IsZero(f) \/ (Normal(FMul(q, f)) /\ Normal(s) /\ Normal(FMul(s, rq))))

\* |left - (q - f * q)| <= 2^-51 * (q + f * q), for q > 0 and f >= 0
LeftUpToRounding(left, q, f) ==
    /\ IsFinite(left)
    /\ RealLe(FAbs(Minus(left, Minus(q, Product(f, q)))),
              TimesTwoTo(Sum(q, Product(f, q)), -51))

\* C1 as stated: a successful AllInto of X, of which the balance is q > 0,
\* into a recipe that uses X in one slot only, an input, leaves the balance
\* of X in the current group at 0.
C1_AllocationExact ==
    [][\A r \in ChainRecipes : \A i \in RecipeIngredients(r) :
          (/\ pc' = "exec" /\ OnlyOneInput(r, i.part) /\ RanAllInto(i, r)
           /\ FLt(FZero, BalanceOf(Current, i.part).value.quantity))
          => /\ BalanceOf(CurrentAfter, i.part).ok
             /\ IsZero(BalanceOf(CurrentAfter, i.part).value.quantity)]_vars

\* C1: a successful AllInto of X, of which the balance is q, into a recipe
\* that uses X in one slot only, an input, and whose scale q / quantity and
\* scale * quantity neither overflow nor underflow, leaves the balance of X
\* in the current group within 2^-50 * q of 0: q was above 0 and what is left
\* is at most 2^-51 * (q + q) in size.
C1_AllocationInvariant ==
    [][\A r \in ChainRecipes : \A i \in RecipeIngredients(r) :
          (/\ pc' = "exec" /\ OnlyOneInput(r, i.part) /\ RanAllInto(i, r)
           /\ InRange(BalanceOf(Current, i.part).value.quantity, OfInt(1),
                      LastScale(CurrentAfter), InputQuantity(r, i.part)))
          => /\ FLt(FZero, BalanceOf(Current, i.part).value.quantity)
             /\ BalanceOf(CurrentAfter, i.part).ok
             /\ LeftUpToRounding(BalanceOf(CurrentAfter, i.part).value.quantity,
                                 BalanceOf(Current, i.part).value.quantity,
                                 OfInt(1))]_vars

\* Half of 100 Iron Ore went into Washed Ore, which left 62.5, and all the
\* rest into Iron Ingot at the scale 62.5 / 30: 30 times the scale is the
\* f64 above 62.5 and the balance is -2^-47, not 0.
C1_Witness ==
    /\ last = "AllInto"
    /\ pc = "exec"
    /\ Current.inputs = <<Ingredient(Ore, OfInt(100))>>
    /\ Len(Current.recipes) = 2
    /\ Current.recipes[1] = <<Float(<<5, 2>>), RWash>>
    /\ Current.recipes[2] = <<FDiv(Float(<<125, 2>>), OfInt(30)), RIngot>>
    /\ OnlyOneInput(RIngot, Ore)
    /\ InRange(Float(<<125, 2>>), OfInt(1), LastScale(Current), OfInt(30))
    /\ BalanceOf(Current, Ore).value.quantity = FNeg(TwoTo(-47))

\* C2 as stated: a successful Use of the fraction f of X, of which the
\* balance is q, into any recipe leaves the balance of X at q - f * q
\* exactly.
C2_UseFractionExact ==
    [][\A r \in ChainRecipes : \A i \in RecipeIngredients(r) : \A f \in UseFractions :
          (pc' = "exec" /\ RanUse(f, i, r))
          => /\ BalanceOf(CurrentAfter, i.part).ok
             /\ IsFinite(BalanceOf(Current, i.part).value.quantity)
             /\ IsFinite(BalanceOf(CurrentAfter, i.part).value.quantity)
             /\ RealEq(BalanceOf(CurrentAfter, i.part).value.quantity,
                       Minus(BalanceOf(Current, i.part).value.quantity,
                             Product(f, BalanceOf(Current, i.part).value.quantity)))]_vars

\* C2: a successful Use of the fraction f of X, of which the balance is q,
\* into a recipe that uses X in one slot only, an input, leaves the balance
\* of X at q - f * q up to f64 rounding, within 2^-51 * (q + f * q) of it,
\* when q * f, the scale q * f / quantity and scale * quantity neither
\* overflow nor underflow.
C2_UseFraction ==
    [][\A r \in ChainRecipes : \A i \in RecipeIngredients(r) : \A f \in UseFractions :
          (/\ pc' = "exec" /\ OnlyOneInput(r, i.part) /\ RanUse(f, i, r)
           /\ InRange(BalanceOf(Current, i.part).value.quantity, f,
                      LastScale(CurrentAfter), InputQuantity(r, i.part)))
          => /\ BalanceOf(CurrentAfter, i.part).ok
             /\ LeftUpToRounding(BalanceOf(CurrentAfter, i.part).value.quantity,
                                 BalanceOf(Current, i.part).value.quantity, f)]_vars

\* 0.3 of 100 Iron Ore has just gone into Iron Ingot.  The f64 nearest to
\* 0.3 is below 0.3 and 100 times it is below 30 by 2^-50 * 1.25, yet it
\* rounds to 30, the scale is 1 and 70 is left: the balance is q - f * q up
\* to rounding only.
C2_Witness ==
    /\ last = "Use"
    /\ pc = "exec"
    /\ Current.inputs = <<Ingredient(Ore, OfInt(100))>>
    /\ Current.recipes = <<<<FDiv(FMul(OfInt(100), Float(<<3, 10>>)), OfInt(30)), RIngot>>>>
    /\ BalanceOf(Current, Ore).value.quantity = OfInt(70)
    /\ ~RealEq(OfInt(70), Minus(OfInt(100), Product(Float(<<3, 10>>), OfInt(100))))
    /\ LeftUpToRounding(OfInt(70), OfInt(100), Float(<<3, 10>>))
NonBlank(c) == {k \in 1..Len(c) : ~is_empty(c[k])}
\* The lines that no lookup can make parse.
Unparsable(c) == {k \in NonBlank(c) : \A res \in parse(c[k]) : ~res.ok}

\* C3: every non-blank line is parsed before any action runs, and a chain
\* with a line that fails to parse ends in an error with no ChainState made
\* and no action executed.
C3_FailClosed ==
    /\ pc # "parse" => /\ Len(parsed) = Cardinality(NonBlank(chain))
                       /\ \A k \in 1..Len(parsed) :
                             parsed[k].action \in parse(parsed[k].line)
    /\ (Unparsable(chain) # {} \/ any_err(parsed)) =>
          /\ pc \in {"parse", "err"}
          /\ ~made
          /\ steps = 0
          /\ last = Start
          /\ groups = <<>>
          /\ current_group = None

\* The chain was refused for its last line, after lines that parsed.
C3_Witness ==
    /\ pc = "err"
    /\ ~made
    /\ Len(chain) = 3
    /\ chain[1] = GroupLine
    /\ chain[2] = MineLine
    /\ Unparsable(chain) = {3}

\* C4: set_or_make_group(name) leaves a group that exists as it is, inserts
\* an empty group of that name otherwise, leaves every other group alone
\* and makes name the current group.
C4_GroupIdempotent ==
    [][\A name \in GroupNames :
          RanGroup(name)
          => /\ current_group' = Some(name)
             /\ DOMAIN groups' = DOMAIN groups \cup {name}
             /\ \A n \in DOMAIN groups : groups'[n] = groups[n]
             /\ name \notin DOMAIN groups =>
                   groups'[name] = [name |-> name, inputs |-> <<>>,
                                    outputs |-> <<>>, recipes |-> <<>>]]_vars

\* A group that holds inputs and a recipe has just been declared again.
C4_Witness ==
    /\ last = "Group"
    /\ pc = "exec"
    /\ Current.inputs # <<>>
    /\ Current.recipes # <<>>

\* C5 as stated: with no current group, a Comment, Mine, AllInto or Use
\* fails the run.
C5_AllNeedGroup ==
    [][(pc = "exec" /\ current_group = None
          /\ last' \in {"Comment", "Mine", "AllInto", "Use"} /\ steps' = steps + 1)
       => pc' \in {"err", "panic"}]_vars

\* C5: with no current group, a Mine, AllInto or Use panics and changes
\* nothing; a Comment has no effect and the run goes on.
C5_ActionsNeedGroup ==
    [][(pc = "exec" /\ current_group = None /\ steps' = steps + 1)
       => /\ last' \in {"Mine", "AllInto", "Use"} =>
                pc' = "panic" /\ groups' = groups /\ current_group' = None
          /\ last' = "Comment" =>
                pc' = "exec" /\ groups' = groups /\ current_group' = None]_vars

\* A Mine has panicked for want of a current group, after a comment.
C5_Witness ==
    /\ last = "Mine"
    /\ pc = "panic"
    /\ current_group = None
    /\ steps = 2

NoDuplicateParts(seq) ==
    \A j, k \in 1..Len(seq) : seq[j].part = seq[k].part => j = k

\* C6: no inputs list and no outputs list holds a part twice, and mining a
\* part that is present adds to its entry and appends nothing.
C6_PartsMerged ==
    /\ [](\A n \in DOMAIN groups :
             NoDuplicateParts(groups[n].inputs) /\ NoDuplicateParts(groups[n].outputs))
    /\ [][\A p \in MinedParts : \A q \in MineQuantities :
             (RanMine(Ingredient(p, q)) /\ pc' = "exec"
                /\ FirstWith(p, Current.inputs) # 0)
             => LET k == FirstWith(p, Current.inputs)
                IN  /\ Len(CurrentAfter.inputs) = Len(Current.inputs)
                    /\ CurrentAfter.inputs[k].quantity =
                          FAdd(Current.inputs[k].quantity, q)
                    /\ \A j \in 1..Len(Current.inputs) :
                          j # k => CurrentAfter.inputs[j] = Current.inputs[j]]_vars

\* Iron Ore was mined three times, 0.1 each time: one entry, of the f64 next
\* above the one nearest to 0.3, which is what 0.1 + 0.1 + 0.1 is in f64.
C6_Witness ==
    /\ last = "Mine"
    /\ pc = "exec"
    /\ steps = 4
    /\ Current.inputs = <<Ingredient(Ore, NextUp(Float(<<3, 10>>)))>>

\* The three cases in which add_recipe must refuse.
NotInBalance(g, part) ==
    LET b == balances(g)
    IN  \A k \in 1..Len(b) : b[k].part # part
NothingLeft(g, part) ==
    LET b == balances(g)
    IN  \E k \in 1..Len(b) : b[k].part = part /\ FLe(b[k].quantity, FZero)
NotAnInput(r, part) == \A k \in 1..Len(inputs(r)) : inputs(r)[k].part # part

\* One of the three holds, for the entry of the part in the balance.
RefusedOn(entry, r, part) ==
    ~entry.ok \/ FLe(entry.value.quantity, FZero) \/ NotAnInput(r, part)

Refused(g, r, part) == RefusedOn(BalanceOf(g, part), r, part)

\* C7: an AllInto or Use fails the run and appends nothing when the part has
\* no entry in the balance, when its balance is <= 0, and when it is not an
\* input of the recipe.  In other words: a step either fails the run and
\* leaves every group as it was, or it is no AllInto or Use in one of the
\* three cases.
C7_AllocationRefused ==
    [][\/ pc' \in {"err", "panic"} /\ groups' = groups
       \/ \A r \in ChainRecipes : \A i \in RecipeIngredients(r) :
             ~(/\ current_group # None
               /\ last' \in {"AllInto", "Use"}
               /\ Refused(Current, r, i.part)
               /\ (RanAllInto(i, r) \/ \E f \in UseFractions : RanUse(f, i, r)))]_vars

\* add_recipe refuses and leaves the groups as they are.
Refuses(ingredient, recipe, status) ==
    add_recipe(groups, current_group, ingredient, recipe, OfInt(1))
        = [status |-> status, groups |-> groups]

\* 100 Iron Ore went into Double Ore Plate at the scale 10, which takes 300,
\* and an AllInto of Iron Ore into Alloy Plate has panicked on the balance
\* of -200.  In the group it has left, each of the three cases is there and
\* add_recipe refuses each: Iron Ore has nothing left; Iron Ingot, an input
\* of Alloy Plate, is not in the balance; and Iron Plate, of which the
\* balance is above 0, is an output of Alloy Plate and not an input.
C7_Witness ==
    /\ last = "AllInto"
    /\ pc = "panic"
    /\ current_group # None
    /\ Current.inputs = <<Ingredient(Ore, OfInt(100))>>
    /\ Current.recipes = <<<<OfInt(10), RTwice>>>>
    /\ NothingLeft(Current, Ore)
    /\ Refuses(Ingredient(Ore, FZero), RAlloy, "panic")
    /\ NotInBalance(Current, Ingot)
    /\ ~NotAnInput(RAlloy, Ingot)
    /\ Refuses(Ingredient(Ingot, FZero), RAlloy, "err")
    /\ ~NotInBalance(Current, Plate)
    /\ ~NothingLeft(Current, Plate)
    /\ NotAnInput(RAlloy, Plate)
    /\ Refuses(Ingredient(Plate, FZero), RAlloy, "err")

IsInteger(a) == IsFinite(a) /\ IsZero(Fract(a))

\* x is above 0 and finite.
Positive(x) == FLt(FZero, x) /\ IsFinite(x)

\* The rates and the preferred multiples of the State are positive and finite.
PositiveState(state) == \A field \in DOMAIN state : Positive(state[field])

\* n0 = m_per_transport / pref_mult, from the fields of a returned suggestion.
UnroundedBoxes(v) == FDiv(m_per_transport(v), v.pref_mult)

\* C8 as stated: whenever suggest_blueprint returns Ok, for whatever recipe
\* and State, n_boxes is an integer and 0 < clock <= 1.
C8_IntegerBoxes ==
    (bp_recipe.called /\ suggestion.ok)
    => /\ IsInteger(suggestion.value.n_boxes)
       /\ FLt(FZero, suggestion.value.clock)
       /\ FLe(suggestion.value.clock, OfInt(1))

\* C8: whenever suggest_blueprint returns Ok, for whatever recipe and State,
\* n_boxes is an integer when clock is not 1, and when clock = 1 it is the
\* unrounded m_per_transport / pref_mult, which is infinite, NaN or at most
\* 0.0001 from the integer towards 0; and for a State whose rates and
\* multiples are positive and finite, 0 < clock <= 1 and n_boxes >= 0.
C8_NearIntegerBoxes ==
    (bp_recipe.called /\ suggestion.ok)
    => LET v == suggestion.value
       IN  /\ v.clock # OfInt(1) => IsInteger(v.n_boxes)
           /\ v.clock = OfInt(1)
                 => /\ v.n_boxes = UnroundedBoxes(v)
                    /\ \/ ~IsFinite(v.n_boxes)
                       \/ FLe(FAbs(Fract(v.n_boxes)), Float(<<1, 10000>>))
           /\ PositiveState(bp_recipe.state)
                 => /\ FLt(FZero, v.clock)
                    /\ FLe(v.clock, OfInt(1))
                    /\ FLe(FZero, v.n_boxes)

\* With belts of 480 a minute, 8 machines per belt in threes: 3 boxes at 8/9
\* of full speed.
C8_Witness ==
    /\ bp_recipe.called
    /\ PositiveState(bp_recipe.state)
    /\ bp_recipe.state.belt_ipm = OfInt(480)
    /\ suggestion.ok
    /\ suggestion.value.use_belt
    /\ suggestion.value.pref_mult = OfInt(3)
    /\ suggestion.value.n_boxes = OfInt(3)
    /\ suggestion.value.clock = FDiv(FDiv(OfInt(8), OfInt(3)), OfInt(3))

\* Two calls for one building, one number of boxes and one multiple, both in
\* the accepted domain, the later one at the higher clock.
ClockRaised ==
    /\ power_before.called
    /\ power.called
    /\ power_before.building = power.building
    /\ power_before.n_boxes = power.n_boxes
    /\ power_before.pref_mult = power.pref_mult
    /\ power_before.result.ok
    /\ power.result.ok
    /\ FLt(power_before.clock, power.clock)

\* 1 + 2^-49
OnePlus == FAdd(OfInt(1), TwoTo(-49))

\* The earlier clock is at least 2^-700 and the later one is more than
\* 1 + 2^-49 times it; n_boxes * pref_mult is above 0; and neither power has
\* overflowed or underflowed.
ClockWellRaised ==
    /\ ClockRaised
    /\ FLe(TwoTo(-700), power_before.clock)
    /\ ~RealLe(power.clock, Product(power_before.clock, OnePlus))
    /\ Positive(FMul(power.n_boxes, power.pref_mult))
    /\ Normal(power_before.result.value)
    /\ Normal(power.result.value)

\* C9 as stated: for every building with a base power and a fixed n_boxes *
\* pref_mult, the power usage rises strictly with the clock.
C9_PowerRisesAnyBuilding ==
    ClockRaised => FLt(power_before.result.value, power.result.value)

\* C9: for every building with a positive base power and a fixed n_boxes *
\* pref_mult above 0, the power usage rises strictly from a clock of at
\* least 2^-700 to a clock more than 1 + 2^-49 times it, within 0 < clock <
\* 2.5, when neither power overflows or underflows; for the Nuclear Power
\* Plant, whose base power is -2500, it falls strictly.
C9_PowerMonotone ==
    ClockWellRaised =>
       IF FLt(FZero, base_power_usage(power.building).value)
       THEN FLt(power_before.result.value, power.result.value)
       ELSE FLt(power.result.value, power_before.result.value)

\* 5 boxes of 3 Smelters priced at half speed and then at full speed, where
\* they take 5 * 3 * 4 MW.
C9_Witness ==
    /\ ClockWellRaised
    /\ power.building = "Smelter"
    /\ power.n_boxes = OfInt(5)
    /\ power.pref_mult = OfInt(3)
    /\ power_before.clock = Float(<<1, 2>>)
    /\ power.clock = OfInt(1)
    /\ power.result.value = OfInt(60)
    /\ FLt(power_before.result.value, power.result.value)

\* C12: whenever the building of the recipe has no preferred multiple in
\* the State, suggest_blueprint returns an error and no suggestion, whatever
\* the ingredients of the recipe are.
C12_UnknownBuildingRefused ==
    (bp_recipe.called
       /\ ~prefered_building_multiple(bp_recipe.state, bp_recipe.recipe.building).ok)
    => suggestion = Err

\* A Miner recipe that a belt and a pipe could size has been refused.
C12_Witness ==
    /\ bp_recipe.called
    /\ bp_recipe.recipe.building = "Miner"
    /\ bp_recipe.recipe.in_1 = Some(Ingredient(Ore, OfInt(60)))
    /\ bp_recipe.recipe.out_1 = Some(Ingredient("Water", OfInt(120)))
    /\ suggestion = Err

\* n is finite and at most 1e-4 from an integer, the one towards 0 or the
\* one away from it.
NearInteger(n) ==
    /\ IsFinite(n)
    /\ \/ FLe(FAbs(Fract(n)), Float(<<1, 10000>>))
       \/ FLe(Float(<<9999, 10000>>), FAbs(Fract(n)))

\* The suggestion has the boxes of the next integer up, each at n0 / n_boxes
\* of full speed.
RoundedUp(v, n0) ==
    /\ IsFinite(n0)
    /\ v.n_boxes = Ceil(n0)
    /\ v.clock = FDiv(n0, v.n_boxes)

\* The boxes are under-clocked and make what n0 boxes at full speed make.
UnderClocked(v, n0) ==
    /\ FLt(n0, v.n_boxes)
    /\ FLt(v.clock, OfInt(1))
    /\ FMul(v.n_boxes, v.clock) = n0

Unrounded(v, n0) == v.n_boxes = n0 /\ v.clock = OfInt(1)

\* C13 as stated: the suggestion is rounded up and under-clocked, with
\* n_boxes * clock = n0, exactly when n0 is not within 1e-4 of an integer,
\* and is n0 at clock 1 when n0 is within 1e-4 of an integer, above or below
\* it.
C13_RoundsUnlessNearInteger ==
    (bp_recipe.called /\ suggestion.ok)
    => IF NearInteger(UnroundedBoxes(suggestion.value))
       THEN Unrounded(suggestion.value, UnroundedBoxes(suggestion.value))
       ELSE /\ RoundedUp(suggestion.value, UnroundedBoxes(suggestion.value))
            /\ UnderClocked(suggestion.value, UnroundedBoxes(suggestion.value))

\* C13: the suggestion is rounded up exactly when n0 is finite and
\* n0.fract() is more than 0.0001 in size (n0 is more than 0.0001 from the
\* integer towards 0): then n_boxes = ceil(n0) and clock = n0 / ceil(n0),
\* and for n0 > 0 the clock is below 1 and n_boxes * clock = n0.  Otherwise
\* (n0 at most 0.0001 from the integer towards 0, infinite or NaN) it is n0
\* at clock 1.
C13_RoundsAboveTolerance ==
    (bp_recipe.called /\ suggestion.ok)
    => IF /\ IsFinite(UnroundedBoxes(suggestion.value))
          /\ FLt(Float(<<1, 10000>>), FAbs(Fract(UnroundedBoxes(suggestion.value))))
       THEN /\ RoundedUp(suggestion.value, UnroundedBoxes(suggestion.value))
            /\ FLt(FZero, UnroundedBoxes(suggestion.value))
                  => UnderClocked(suggestion.value, UnroundedBoxes(suggestion.value))
       ELSE Unrounded(suggestion.value, UnroundedBoxes(suggestion.value))

\* 12 - 1/20000 Converters per belt: rounded up to 12, each a little slow.
C13_Witness ==
    /\ bp_recipe.called
    /\ bp_recipe.state = default
    /\ suggestion.ok
    /\ bp_recipe.recipe.building = "Converter"
    /\ UnroundedBoxes(suggestion.value)
           = FDiv(OfInt(belt_ipm), Float(<<15600000, 239999>>))
    /\ FLe(Float(<<9999, 10000>>), Fract(UnroundedBoxes(suggestion.value)))
    /\ suggestion.value.n_boxes = OfInt(12)
    /\ suggestion.value.clock
           = FDiv(UnroundedBoxes(suggestion.value), OfInt(12))
    /\ FLt(suggestion.value.clock, OfInt(1))
    /\ FMul(suggestion.value.n_boxes, suggestion.value.clock)
           = UnroundedBoxes(suggestion.value)

\* The quantities of the entries of seq with the part, in their order.
QuantitiesOf(seq, part) ==
    LET hits == SelectSeq(seq, LAMBDA i : i.part = part)
    IN  [k \in 1..Len(hits) |-> hits[k].quantity]

\* qs[1] + qs[2] + ... in f64, added in that order.
RECURSIVE InOrder(_)
InOrder(qs) ==
    IF Len(qs) = 1 THEN qs[1]
    ELSE CHOOSE sum \in {FAdd(before, qs[Len(qs)]) :
                             before \in {InOrder(SubSeq(qs, 1, Len(qs) - 1))}} : TRUE

\* The real numbers qs[1] + qs[2] + ... and |qs[1]| + |qs[2]| + ..., for
\* finite qs.
RECURSIVE RealSum(_)
RealSum(qs) ==
    IF qs = <<>> THEN FZero
    ELSE CHOOSE sum \in {Sum(before, qs[Len(qs)]) :
                             before \in {RealSum(SubSeq(qs, 1, Len(qs) - 1))}} : TRUE

RECURSIVE RealSize(_)
RealSize(qs) ==
    IF qs = <<>> THEN FZero
    ELSE CHOOSE sum \in {Sum(before, FAbs(qs[Len(qs)])) :
                             before \in {RealSize(SubSeq(qs, 1, Len(qs) - 1))}} : TRUE

AllFinite(qs) == \A k \in 1..Len(qs) : IsFinite(qs[k])

\* The natural number n as a real number.
RealOf(n) == <<1, 0, BOf(n)>>

\* The f64 x is the sum of the finite qs up to the rounding of each
\* addition: |x - sum| <= (n - 1) * 2^-52 * (|qs[1]| + ... + |qs[n]|).
SumUpToRounding(x, qs) ==
    \E err \in {FAbs(Minus(x, RealSum(qs)))} :
        RealLe(err, TimesTwoTo(Product(RealOf(Len(qs) - 1), RealSize(qs)), -52))

\* The position in seq at which the part first appears.
FirstSeen(seq, part) == CHOOSE k \in 1..Len(seq) :
    seq[k].part = part /\ \A j \in 1..(k - 1) : seq[j].part # part

\* After any run of merge_with calls on an empty vector, the vector holds
\* one entry for each part merged, in the order the parts first came: a
\* part not yet present is appended behind the entries there.
OneEntryEach ==
    /\ NoDuplicateParts(into)
    /\ {into[k].part : k \in 1..Len(into)} = {merged[k].part : k \in 1..Len(merged)}
    /\ \A j, k \in 1..Len(into) :
          j < k => FirstSeen(merged, into[j].part) < FirstSeen(merged, into[k].part)

\* C10 as stated: the ingredients of one part give one entry, whose
\* quantity is the sum of their quantities.
C10_MergeExact ==
    /\ OneEntryEach
    /\ \A k \in 1..Len(into) :
          AllFinite(QuantitiesOf(merged, into[k].part))
          => /\ IsFinite(into[k].quantity)
             /\ RealEq(into[k].quantity, RealSum(QuantitiesOf(merged, into[k].part)))

\* C10: the ingredients of one part give one entry, whose quantity is the
\* f64 sum of their quantities in the order they were merged: when it is
\* finite, the sum of the n quantities up to rounding, within (n - 1) *
\* 2^-52 times the sum of their sizes.  A part not yet present is appended
\* behind the entries there, which stay as they were.
C10_MergeConservation ==
    /\ OneEntryEach
    /\ \A k \in 1..Len(into) :
          /\ into[k].quantity = InOrder(QuantitiesOf(merged, into[k].part))
          /\ IsFinite(into[k].quantity)
                => \E qs \in {QuantitiesOf(merged, into[k].part)} :
                       SumUpToRounding(into[k].quantity, qs)

\* Three quantities of Iron Ore merged into one entry: 0.1 three times, which
\* in f64 is the value next above the one nearest to 0.3, and not the sum.
C10_Witness ==
    /\ Len(merged) = 3
    /\ \A k \in 1..3 : merged[k] = Ingredient(Ore, Float(<<1, 10>>))
    /\ into = <<Ingredient(Ore, NextUp(Float(<<3, 10>>)))>>
    /\ ~RealEq(into[1].quantity, RealSum(QuantitiesOf(merged, Ore)))
    /\ SumUpToRounding(into[1].quantity, QuantitiesOf(merged, Ore))

\* <<scale, quantity>> for each entry of seq with the part.
Pairs(seq, part, s) ==
    LET hits == SelectSeq(seq, LAMBDA i : i.part = part)
    IN  [k \in 1..Len(hits) |-> <<s, hits[k].quantity>>]

\* What the recipe entries make and take of the part: <<scale, quantity>> for
\* each output and <<-scale, quantity>> for each input.
RECURSIVE RecipePairs(_, _)
RecipePairs(recipes, part) ==
    IF recipes = <<>> THEN <<>>
    ELSE Pairs(outputs(Head(recipes)[2]), part, Head(recipes)[1])
         \o Pairs(inputs(Head(recipes)[2]), part, FNeg(Head(recipes)[1]))
         \o RecipePairs(Tail(recipes), part)

\* The terms of the net quantity of the part in g: the inputs, less the
\* outputs, plus for each recipe entry its scale times what the recipe makes
\* less what it takes.
NetPairs(g, part) ==
    Pairs(g.inputs, part, OfInt(1)) \o Pairs(g.outputs, part, OfInt(-1))
    \o RecipePairs(g.recipes, part)

\* The same without the outputs of the group.
MinedAndMade(g, part) ==
    Pairs(g.inputs, part, OfInt(1)) \o RecipePairs(g.recipes, part)

\* The real numbers scale * quantity of the pairs, and the f64 ones.
RealTerms(pairs) == [k \in 1..Len(pairs) |-> Product(pairs[k][1], pairs[k][2])]
F64Terms(pairs) == [k \in 1..Len(pairs) |-> FMul(pairs[k][1], pairs[k][2])]

\* The f64 x is the sum of the n terms up to the rounding of each product
\* and each addition: |x - sum| <= n * (2^-52 * (sum of the sizes of the
\* terms) + 2^-1074).
Within(err, rounding, underflow) ==
    RealLe(err, rounding) \/ RealLe(err, Sum(rounding, underflow))

NetUpToRounding(x, terms) ==
    \E err \in {FAbs(Minus(x, RealSum(terms)))} :
    \E rounding \in {TimesTwoTo(Product(RealOf(Len(terms)), RealSize(terms)), -52)} :
        Within(err, rounding, Product(RealOf(Len(terms)), Tiny))

Mentions(g, part) ==
    \/ \E k \in 1..Len(g.inputs) : g.inputs[k].part = part
    \/ \E k \in 1..Len(g.outputs) : g.outputs[k].part = part
    \/ \E k \in 1..Len(g.recipes) : \E j \in 1..Len(ingredients(g.recipes[k][2])) :
          ingredients(g.recipes[k][2])[j].part = part

\* balances() holds at most one entry for a part, one exactly when the
\* group mentions the part.
OneEntryPerPart(b, g) ==
    /\ NoDuplicateParts(b)
    /\ \A p \in Parts : EntryOf(b, p).ok <=> Mentions(g, p)

\* The call of balances() has left the group as it was.
GroupUntouched ==
    [][pc' = "balanced" => groups' = groups /\ current_group' = current_group]_vars

\* C11 as stated: balances() holds at most one entry for a part and its
\* quantity is inputs - outputs + the sum over the recipe entries of scale *
\* (outputs - inputs of the recipe); the call leaves the group as it was.
C11_BalanceExact ==
    /\ [](pc = "balanced" =>
             /\ OneEntryPerPart(into, Current)
             /\ \A k \in 1..Len(into) :
                   (\A j \in 1..Len(NetPairs(Current, into[k].part)) :
                        AllFinite(NetPairs(Current, into[k].part)[j]))
                   => /\ IsFinite(into[k].quantity)
                      /\ RealEq(into[k].quantity,
                                RealSum(RealTerms(NetPairs(Current, into[k].part)))))
    /\ GroupUntouched

\* C11: balances() holds at most one entry for a part, one exactly when the
\* group mentions the part; when its quantity is finite, it is inputs -
\* outputs + the sum over the recipe entries of scale * (outputs - inputs of
\* the recipe) up to f64 rounding: within n * (2^-52 * S + 2^-1074) of it,
\* for the n terms of that sum (a scale times a quantity, or a quantity) and
\* the sum S of their sizes.  With no recipes that is inputs - outputs.  The
\* call leaves the group as it was.
C11_BalanceFormula ==
    /\ [](pc = "balanced" =>
             /\ OneEntryPerPart(into, Current)
             /\ \A k \in 1..Len(into) :
                   IsFinite(into[k].quantity)
                   => \E terms \in {RealTerms(NetPairs(Current, into[k].part))} :
                          NetUpToRounding(into[k].quantity, terms))
    /\ GroupUntouched

\* The balance of a group with 30 and 0.1 Iron Ore as inputs, 20 Iron Ore as
\* an output and the recipes Washed Ore at 0.1 and Iron Ingot at the f64
\* nearest to 5/3: the entry of Iron Ore is not the real number 30 + 0.1 -
\* 20 + 0.1 * (5 - 20) - 5/3 * 30, and is within the rounding of it.
C11_Witness ==
    /\ pc = "balanced"
    /\ Current.inputs = <<Ingredient(Ore, OfInt(30)), Ingredient(Ore, Float(<<1, 10>>))>>
    /\ Current.outputs = <<Ingredient(Ore, OfInt(20))>>
    /\ Current.recipes = <<<<Float(<<1, 10>>), RWash>>, <<Float(<<5, 3>>), RIngot>>>>
    /\ Len(NetPairs(Current, Ore)) = 6
    /\ EntryOf(into, Ore).ok
    /\ IsFinite(EntryOf(into, Ore).value.quantity)
    /\ ~RealEq(EntryOf(into, Ore).value.quantity, RealSum(RealTerms(NetPairs(Current, Ore))))
    /\ NetUpToRounding(EntryOf(into, Ore).value.quantity, RealTerms(NetPairs(Current, Ore)))

\* The groups after (scale, r) is pushed onto the recipes of the current group.
Pushed(f, i, r) ==
    LET q == BalanceOf(Current, i.part).value.quantity
        rq == inputs(r)[FirstWith(i.part, inputs(r))].quantity
    IN  [groups EXCEPT ![current_group[1]].recipes =
                           Append(@, <<FDiv(FMul(q, f), rq), r>>)]

\* C14: a successful AllInto or Use appends one entry behind the recipes of
\* the current group, (balance before * fraction / quantity of the part in
\* the recipe's inputs, recipe), with fraction 1 for AllInto, whether or not
\* the recipe is there already, and changes nothing else: not the earlier
\* entries, the inputs, the outputs, another group or current_group.
C14_RecipeAppended ==
    [][\A r \in ChainRecipes : \A i \in RecipeIngredients(r) :
          /\ (pc' = "exec" /\ RanAllInto(i, r))
                => groups' = Pushed(OfInt(1), i, r) /\ current_group' = current_group
          /\ \A f \in UseFractions :
                (pc' = "exec" /\ RanUse(f, i, r))
                => groups' = Pushed(f, i, r) /\ current_group' = current_group]_vars

\* Half of 100 Iron Ore went into Iron Ingot and then all the rest did: two
\* entries of the one recipe, at the f64 nearest to 5/3 each.
C14_Witness ==
    /\ last = "AllInto"
    /\ pc = "exec"
    /\ Current.inputs = <<Ingredient(Ore, OfInt(100))>>
    /\ Current.recipes = <<<<Float(<<5, 3>>), RIngot>>, <<Float(<<5, 3>>), RIngot>>>>

\* C15: in every state reached by running a chain that parsed, every entry
\* of every group's recipes has scale >= 0.
C15_ScalesNotNegative ==
    \A n \in DOMAIN groups : \A k \in 1..Len(groups[n].recipes) :
        FLe(FZero, groups[n].recipes[k][1])

\* C16: current_group is unset or a key of groups, the group under a key
\* bears the key as its name, no group is ever removed and current_group is
\* never unset again; so with a current group set, group() finds it.
C16_CurrentGroupPresent ==
    /\ [](/\ current_group = None \/ current_group[1] \in DOMAIN groups
          /\ \A n \in DOMAIN groups : groups[n].name = n
          /\ current_group # None => group(groups, current_group).ok)
    /\ [][/\ DOMAIN groups \subseteq DOMAIN groups'
          /\ current_group # None => current_group' # None]_vars

\* Two groups were declared, one of them named None, the first was made
\* current again and a Mine found it.
C16_Witness ==
    /\ DOMAIN groups = GroupNames
    /\ last = "Mine"
    /\ pc = "exec"
    /\ steps = 4
    /\ Current.name = current_group[1]
    /\ Current.inputs # <<>>
    /\ \E n \in GroupNames : n # current_group[1] /\ groups[n].inputs = <<>>

\* The balance b of g holds an entry for the part exactly when the part was
\* mined or is in a recipe of g, and its quantity is, added in f64 in this
\* order, the quantity mined and then of each recipe entry scale * quantity
\* for what it makes and -(scale * quantity) for what it takes; when that
\* is finite, it is the real sum of these up to rounding.
MinedAndMadeOnly(entry, pairs) ==
    /\ entry.ok <=> pairs # <<>>
    /\ entry.ok => /\ entry.value.quantity = InOrder(F64Terms(pairs))
                   /\ IsFinite(entry.value.quantity)
                         => \E terms \in {RealTerms(pairs)} :
                                NetUpToRounding(entry.value.quantity, terms)

\* C17: no action writes the outputs of a group: in every state every
\* group's outputs are empty, and its balances() holds for each part the
\* quantity mined plus the scaled contributions of the recipes, nothing
\* else.
C17_OutputsEmpty ==
    \A n \in DOMAIN groups :
        /\ groups[n].outputs = <<>>
        /\ \E b \in {balances(groups[n])} :
              /\ NoDuplicateParts(b)
              /\ \A p \in Parts :
                    \E entry \in {EntryOf(b, p)}, pairs \in {MinedAndMade(groups[n], p)} :
                        MinedAndMadeOnly(entry, pairs)

\* 100 Iron Ore and 100 Iron Ingot mined, half the ore used for Alloy Plate
\* at the scale 2.5: 50 ore, 75 ingots and 37.5 plates in the balance, and
\* no outputs.
C17_Witness ==
    /\ last = "Use"
    /\ pc = "exec"
    /\ Current.outputs = <<>>
    /\ Len(Current.inputs) = 2
    /\ Current.recipes = <<<<Float(<<5, 2>>), RAlloy>>>>
    /\ balances(Current) = <<Ingredient(Ore, OfInt(50)), Ingredient(Ingot, OfInt(75)),
                             Ingredient(Plate, Float(<<75, 2>>))>>

=============================================================================
